---- MODULE Spec2Model ----
(***************************************************************************)
(* A model of the cuckoo-fingerprint partition index of                    *)
(* dispanser/partition-index: the fingerprint and bucket algebra           *)
(* (filter/cuckoo/mod.rs), the growable per-partition cuckoo filter        *)
(* (filter/cuckoo/growable.rs), the in-memory generation                   *)
(* (index/in_memory/mod.rs) and the persistent index with its bucket       *)
(* files and manifest (index/poc/mod.rs).                                  *)
(*                                                                         *)
(* Machine words are modelled WordBits wide and fingerprints FpBits wide,  *)
(* so that wrapping arithmetic, hash collisions and fingerprint clashes    *)
(* all occur within a small state space.                                   *)
(***************************************************************************)
EXTENDS Integers, Sequences, FiniteSets, TLC

VARIABLES
    data,            \* PersistentIndex.data : PersistentIndexData
    mem_index,       \* PersistentIndex.mem_index : CuckooIndex
    partitions_data, \* the file <storage_root>/partitions.data
    bucket_files,    \* the files <storage_root>/index/NNNNNNN.bucket
    mem_ghost,       \* history: per mem_index.partitions entry, keys added / removed
    data_ghost,      \* history: per data.partitions entry
    disk_ghost,      \* history: per entry of the manifest on disk
    alg,             \* inputs and results of the pure functions (SpecAlgebra)
    flt,             \* one GrowableCuckooFilter and the insert in progress (SpecFilter)
    io,              \* the position of a persist call in its file operations (SpecCrash)
    cuckoo           \* one fixed-width CuckooFilter and the call in progress (SpecCuckoo)

vars == <<data, mem_index, partitions_data, bucket_files,
          mem_ghost, data_ghost, disk_ghost, alg, flt, io, cuckoo>>

(***************************************************************************)
(* Bounds of the model.                                                    *)
(***************************************************************************)
\* width of a machine word (u64 in the source)
WordBits == 6
\* width of a fingerprint (u16 in the source)
FpBits == 2
\* keys are drawn from 0 .. MaxKey
MaxKey == 2
\* bucket counts of an index are drawn from 1 .. MaxBuckets
MaxBuckets == 3
\* partition identifiers are drawn from 1 .. MaxPartitionId
MaxPartitionId == 2
\* at most MaxParts partitions are added to one index
MaxParts == 2
\* the key iterator of one partition yields at most MaxVals values
MaxVals == 2
\* filter/cuckoo/growable.rs: the eviction budget insert hands to try_insert
TriesBudget == 63
TriesBits == 2
MaxCuckooBuckets == 3
MaxCuckooEntries == 2
MaxCuckooCalls == 4
\* the keys inserted into the filter of SpecFilter are drawn from 0 .. MaxFilterKey
MaxFilterKey == 7
\* the bucket counts of the filter of SpecFilter are drawn from 1 .. MaxFilterBuckets
MaxFilterBuckets == 5
\* at most MaxInserts insert calls are made on the filter of SpecFilter
MaxInserts == 4
\* at most MaxFaults I/O errors and crashes happen on one storage root
MaxFaults == 1
\* SpecCrash: bucket counts 1 .. MaxCrashBuckets, at most MaxCrashVals keys
\* per add, at most MaxPersists persist calls
MaxCrashBuckets == 2
MaxCrashVals == 1
MaxPersists == 2

Word == 2 ^ WordBits
FpMod == 2 ^ FpBits
Keys == 0 .. MaxKey
BucketCounts == 1 .. MaxBuckets
Fingerprints == 1 .. (FpMod - 1)
PartitionIds == 1 .. MaxPartitionId

(***************************************************************************)
(* Bit operations on naturals.                                             *)
(***************************************************************************)
RECURSIVE Xor(_, _)
Xor(a, b) ==
    IF a = 0 THEN b
    ELSE IF b = 0 THEN a
    ELSE (((a % 2) + (b % 2)) % 2) + 2 * Xor(a \div 2, b \div 2)

(***************************************************************************)
(* std::collections::hash_map::DefaultHasher.  The hasher is a streaming   *)
(* keyed permutation of the written words; it is modelled by an            *)
(* add-multiply-xor mixer on WordBits-wide words.  The state is the mixer  *)
(* state after the writes so far; finish does not consume it.              *)
(***************************************************************************)
SipRound(v) ==
    LET a == (v * 5 + 3) % Word
    IN  Xor(a, a \div 4)

DefaultHasher_new == 27 % Word

Hasher_write_u64(state, x) == SipRound(Xor(state, x % Word))

Hasher_finish(state) == SipRound(SipRound(Xor(state, Word - 1)))

\* filter/cuckoo/mod.rs: hash
hash(key) == Hasher_finish(Hasher_write_u64(DefaultHasher_new, key))

\* fingerprint without its loop: the low bits of the first digest, zero or not
fingerprint_once(hasher, key_rot) ==
    Hasher_finish(Hasher_write_u64(hasher, key_rot)) % FpMod

\* filter/cuckoo/mod.rs: fingerprint.  The loop keeps writing the last
\* digest into the same hasher until the low FpBits bits are not all zero.
RECURSIVE fingerprint_loop(_, _)
fingerprint_loop(hasher, key_rot) ==
    LET h2 == Hasher_write_u64(hasher, key_rot)
        kr == Hasher_finish(h2)
    IN  IF kr % FpMod # 0 THEN kr % FpMod ELSE fingerprint_loop(h2, kr)

\* the number of rounds the loop of fingerprint makes for key
RECURSIVE fingerprint_rounds(_, _)
fingerprint_rounds(hasher, key_rot) ==
    LET h2 == Hasher_write_u64(hasher, key_rot)
        kr == Hasher_finish(h2)
    IN  IF kr % FpMod # 0 THEN 1 ELSE 1 + fingerprint_rounds(h2, kr)

fingerprint(key) == fingerprint_loop(DefaultHasher_new, key)

\* filter/cuckoo/mod.rs: bucket
bucket(key, buckets) == hash(key) % buckets

\* u64::wrapping_sub
wrapping_sub(a, b) == (a + Word - (b % Word)) % Word

\* filter/cuckoo/mod.rs: flip_bucket (its assert!(bucket < buckets) is the
\* precondition of every use below)
flip_bucket(fp, b, buckets) == wrapping_sub(hash(fp), b) % buckets

\* filter/cuckoo/growable.rs: GrowableCuckooFilter::bucket
GrowableCuckooFilter_bucket(key, fp, buckets) ==
    Xor(hash(key) % buckets, hash(fp) % buckets) % buckets

\* filter/cuckoo/growable.rs: GrowableCuckooFilter::flip_bucket
GrowableCuckooFilter_flip_bucket(fp, b, buckets) ==
    Xor(b, hash(fp) % buckets) % buckets

(***************************************************************************)
(* Sequence helpers.                                                       *)
(***************************************************************************)
RECURSIVE Zeros(_)
Zeros(n) == IF n <= 0 THEN <<>> ELSE <<0>> \o Zeros(n - 1)

\* a resize that pads nothing
resize_keep(v, new_len) == v

\* a resize that pads with the value 1
RECURSIVE resize_ones(_, _)
resize_ones(v, new_len) ==
    IF Len(v) >= new_len THEN SubSeq(v, 1, new_len)
    ELSE resize_ones(Append(v, 1), new_len)

\* Vec::resize(new_len, 0)
resize(v, new_len) ==
    IF Len(v) >= new_len THEN SubSeq(v, 1, new_len)
    ELSE v \o Zeros(new_len - Len(v))

RECURSIVE SumWidth(_)
SumWidth(ps) ==
    IF ps = <<>> THEN 0 ELSE Head(ps).bucket_size + SumWidth(Tail(ps))

(***************************************************************************)
(* filter/cuckoo/growable.rs: GrowableCuckooFilter.  Bucket b of the       *)
(* filter is data[b + 1].                                                  *)
(***************************************************************************)
GrowableCuckooFilter_new(buckets) ==
    [data |-> [i \in 1 .. buckets |-> <<>>],
     buckets |-> buckets,
     entries_per_bucket |-> 1,
     items |-> 0]

entries_per_bucket(f) == f.entries_per_bucket

\* accessors the index calls on the filter
elements(f) == f.items

drain(f) == f.data

find_in_bucket(f, fp, b) ==
    \E i \in 1 .. Len(f.data[b + 1]) : f.data[b + 1][i] = fp

\* a try_insert call that waits for its random eviction choice
NoCall == [pending |-> FALSE, fingerprint |-> 0, bucket |-> 0, tries_left |-> 0]

\* a try_insert that gives up at tries_left = 0 instead of widening
try_insert_rejecting(f, fp, b, tries_left) ==
    LET entries == f.data[b + 1]
    IN  IF Len(entries) < f.entries_per_bucket
        THEN [filter |-> [f EXCEPT !.data[b + 1] = Append(entries, fp),
                                   !.items = f.items + 1],
              call |-> NoCall, result |-> "Success"]
        ELSE IF tries_left = 0
        THEN [filter |-> f, call |-> NoCall, result |-> "Rejected"]
        ELSE [filter |-> f,
              call |-> [pending |-> TRUE, fingerprint |-> fp, bucket |-> b,
                        tries_left |-> tries_left],
              result |-> "Pending"]

\* a try_insert that widens a full bucket one eviction before the budget
\* is used up
try_insert_grow_early(f, fp, b, tries_left) ==
    LET entries == f.data[b + 1]
    IN  IF Len(entries) < f.entries_per_bucket
        THEN [filter |-> [f EXCEPT !.data[b + 1] = Append(entries, fp),
                                   !.items = f.items + 1],
              call |-> NoCall, result |-> "Success"]
        ELSE IF tries_left <= 1
        THEN [filter |-> [f EXCEPT !.entries_per_bucket = f.entries_per_bucket + 1,
                                   !.data[b + 1] = Append(entries, fp),
                                   !.items = f.items + 1],
              call |-> NoCall, result |-> "Success"]
        ELSE [filter |-> f,
              call |-> [pending |-> TRUE, fingerprint |-> fp, bucket |-> b,
                        tries_left |-> tries_left],
              result |-> "Pending"]

\* a try_insert that pushes into the full bucket at tries_left = 0 and
\* leaves the width as it is
try_insert_push_only(f, fp, b, tries_left) ==
    LET entries == f.data[b + 1]
    IN  IF Len(entries) < f.entries_per_bucket \/ tries_left = 0
        THEN [filter |-> [f EXCEPT !.data[b + 1] = Append(entries, fp),
                                   !.items = f.items + 1],
              call |-> NoCall, result |-> "Success"]
        ELSE [filter |-> f,
              call |-> [pending |-> TRUE, fingerprint |-> fp, bucket |-> b,
                        tries_left |-> tries_left],
              result |-> "Pending"]

\* try_insert up to its random choice: the push into a bucket with space,
\* the grow step at tries_left = 0, or a pending eviction
try_insert(f, fp, b, tries_left) ==
    LET entries == f.data[b + 1]
    IN  IF Len(entries) < f.entries_per_bucket
        THEN [filter |-> [f EXCEPT !.data[b + 1] = Append(entries, fp),
                                   !.items = f.items + 1],
              call |-> NoCall, result |-> "Success"]
        ELSE IF tries_left = 0
        THEN [filter |-> [f EXCEPT !.entries_per_bucket = f.entries_per_bucket + 1,
                                   !.data[b + 1] = Append(entries, fp),
                                   !.items = f.items + 1],
              call |-> NoCall, result |-> "Success"]
        ELSE [filter |-> f,
              call |-> [pending |-> TRUE, fingerprint |-> fp, bucket |-> b,
                        tries_left |-> tries_left],
              result |-> "Pending"]

\* an eviction that recurses with the budget it was given
try_insert_evict_same_budget(f, call, entry) ==
    LET entries == f.data[call.bucket + 1]
        evicted == entries[entry]
        f2      == [f EXCEPT !.data[call.bucket + 1][entry] = call.fingerprint]
    IN  try_insert(f2, evicted,
                   GrowableCuckooFilter_flip_bucket(evicted, call.bucket, f.buckets),
                   call.tries_left)

\* the rest of try_insert once entry is drawn: swap the fingerprint in and
\* recurse with the evicted one on its partner bucket
try_insert_evict(f, call, entry) ==
    LET entries == f.data[call.bucket + 1]
        evicted == entries[entry]
        f2      == [f EXCEPT !.data[call.bucket + 1][entry] = call.fingerprint]
    IN  try_insert(f2, evicted,
                   GrowableCuckooFilter_flip_bucket(evicted, call.bucket, f.buckets),
                   call.tries_left - 1)

\* impl Filter for GrowableCuckooFilter: insert
insert(f, key) ==
    LET fp    == fingerprint(key)
        b     == GrowableCuckooFilter_bucket(key, fp, f.buckets)
        other == GrowableCuckooFilter_flip_bucket(fp, b, f.buckets)
    IN  IF find_in_bucket(f, fp, b) \/ find_in_bucket(f, fp, other)
        THEN [filter |-> f, call |-> NoCall, result |-> "Duplicate"]
        ELSE IF Len(f.data[other + 1]) < f.entries_per_bucket
        THEN try_insert(f, fp, other, TriesBudget)
        ELSE try_insert(f, fp, b, TriesBudget)

\* impl Filter for GrowableCuckooFilter: contains
contains(f, key) ==
    LET fp  == fingerprint(key)
        b   == GrowableCuckooFilter_bucket(key, fp, f.buckets)
        alt == GrowableCuckooFilter_flip_bucket(fp, b, f.buckets)
    IN  find_in_bucket(f, fp, b) \/ find_in_bucket(f, fp, alt)

\* try_insert run to its end: every pending call takes every eviction draw
\* gen_range can return.  tries_left decreases with each round.
RECURSIVE try_insert_all(_)
try_insert_all(rs) ==
    IF \A r \in rs : ~r.call.pending THEN rs
    ELSE try_insert_all(UNION {
            IF r.call.pending
            THEN {try_insert_evict(r.filter, r.call, e) :
                    e \in 1 .. Len(r.filter.data[r.call.bucket + 1])}
            ELSE {r} : r \in rs})

\* the filters insert(key) can leave behind
insert_all(f, key) == {r.filter : r \in try_insert_all({insert(f, key)})}

\* index/in_memory/mod.rs: index_single_partition, from the set fs of
\* filters the values consumed so far can have produced
RECURSIVE index_single_partition(_, _)
index_single_partition(fs, values) ==
    IF values = <<>> THEN fs
    ELSE index_single_partition(UNION {insert_all(f, Head(values)) : f \in fs},
                                Tail(values))

(***************************************************************************)
(* filter/cuckoo/mod.rs: CuckooFilter, the fixed-width filter.  Slot s of   *)
(* the code is data[s + 1]; 0 marks an empty slot.                         *)
(***************************************************************************)
u8_MAX == 2 ^ TriesBits - 1

CuckooFilter_new(buckets, buckets_per_entry) ==
    [data |-> [i \in 1 .. (buckets * buckets_per_entry) |-> 0],
     buckets |-> buckets,
     entries_per_bucket |-> buckets_per_entry,
     items |-> 0]

\* try_insert, the loop over the slots b .. end - 1 of the bucket
RECURSIVE CuckooFilter_try_insert_slots(_, _, _, _)
CuckooFilter_try_insert_slots(f, fp, b, end) ==
    IF b >= end THEN [filter |-> f, result |-> "Full"]
    ELSE IF f.data[b + 1] = fp THEN [filter |-> f, result |-> "Duplicate"]
    ELSE IF f.data[b + 1] = 0
    THEN [filter |-> [f EXCEPT !.data[b + 1] = fp, !.items = f.items + 1],
          result |-> "Success"]
    ELSE CuckooFilter_try_insert_slots(f, fp, b + 1, end)

\* try_insert up to its eviction: the result, or the call that waits for
\* the slot gen_range draws
CuckooFilter_try_insert(f, fp, b, tries_left) ==
    LET start_slot == b * f.entries_per_bucket
        r == CuckooFilter_try_insert_slots(f, fp, start_slot,
                                           start_slot + f.entries_per_bucket)
    IN  IF r.result # "Full"
        THEN [filter |-> r.filter, call |-> NoCall, result |-> r.result]
        ELSE IF tries_left = 0
        THEN [filter |-> f, call |-> NoCall, result |-> "Rejected"]
        ELSE [filter |-> f,
              call |-> [pending |-> TRUE, fingerprint |-> fp, bucket |-> b,
                        tries_left |-> tries_left],
              result |-> "Pending"]

\* try_insert from its eviction on: the fingerprint replaces the one in the
\* drawn slot, and the evicted one goes to its other bucket with one try less
CuckooFilter_try_insert_evict(f, call, entry) ==
    LET slot    == call.bucket * f.entries_per_bucket + entry
        evicted == f.data[slot + 1]
        r == CuckooFilter_try_insert(
                 [f EXCEPT !.data[slot + 1] = call.fingerprint],
                 evicted, flip_bucket(evicted, call.bucket, f.buckets),
                 call.tries_left - 1)
    IN  [filter |-> r.filter, call |-> r.call, result |-> r.result,
         frame |-> [slot |-> slot, evicted |-> evicted]]

\* a return path that restores the outermost eviction first
RECURSIVE restore_outermost_first(_, _)
restore_outermost_first(slots, frames) ==
    IF frames = <<>> THEN slots
    ELSE restore_outermost_first(
             [slots EXCEPT ![Head(frames).slot + 1] = Head(frames).evicted],
             Tail(frames))

\* the return path of a rejected chain: each try_insert that evicted puts
\* the evicted fingerprint back, the innermost one first
RECURSIVE restore(_, _)
restore(slots, frames) ==
    IF frames = <<>> THEN slots
    ELSE LET last == frames[Len(frames)]
         IN  restore([slots EXCEPT ![last.slot + 1] = last.evicted],
                     SubSeq(frames, 1, Len(frames) - 1))

CuckooFilter_find_in_bucket(f, fp, b) ==
    \E s \in (b * f.entries_per_bucket) .. ((b + 1) * f.entries_per_bucket - 1) :
        f.data[s + 1] = fp

\* impl Filter for CuckooFilter: insert
CuckooFilter_insert(f, key) ==
    LET fp      == fingerprint(key)
        bucket1 == bucket(key, f.buckets)
        other   == flip_bucket(fp, bucket1, f.buckets)
    IN  IF CuckooFilter_find_in_bucket(f, fp, bucket1)
           \/ CuckooFilter_find_in_bucket(f, fp, other)
        THEN [filter |-> f, call |-> NoCall, result |-> "Duplicate"]
        ELSE IF CuckooFilter_find_in_bucket(f, 0, other)
        THEN CuckooFilter_try_insert(f, fp, other, u8_MAX)
        ELSE CuckooFilter_try_insert(f, fp, bucket1, u8_MAX)

(***************************************************************************)
(* index/in_memory/mod.rs: CuckooIndex.  Bucket column b is buckets[b+1].  *)
(***************************************************************************)
CuckooIndex_new(buckets) ==
    [partitions |-> <<>>,
     buckets |-> [i \in 1 .. buckets |-> <<>>],
     slots |-> 0,
     elements |-> 0]

PartitionInfo(partition, f) ==
    [partition |-> partition,
     bucket_size |-> entries_per_bucket(f),
     active |-> TRUE,
     elements |-> elements(f)]

\* a scan of the slots of a partition that starts at the head of the column
RECURSIVE scan_slots_from_zero(_, _, _, _, _, _)
scan_slots_from_zero(p, pos, l, c1, c2, fp) ==
    IF l >= p.bucket_size THEN [panic |-> FALSE, result |-> <<>>]
    ELSE IF l + 1 > Len(c1) THEN [panic |-> TRUE, result |-> <<>>]
    ELSE IF c1[l + 1] # fp /\ l + 1 > Len(c2)
    THEN [panic |-> TRUE, result |-> <<>>]
    ELSE LET hit  == c1[l + 1] = fp \/ c2[l + 1] = fp
             rest == scan_slots_from_zero(p, pos, l + 1, c1, c2, fp)
         IN  [panic |-> rest.panic,
              result |-> (IF hit THEN <<p.partition>> ELSE <<>>) \o rest.result]

\* the scan of query and query_disk over one manifest: c1 and c2 are the
\* two candidate columns.  An index past the end of a column panics.
RECURSIVE scan_slots(_, _, _, _, _, _)
scan_slots(p, pos, l, c1, c2, fp) ==
    IF l >= p.bucket_size THEN [panic |-> FALSE, result |-> <<>>]
    ELSE IF pos + l + 1 > Len(c1) THEN [panic |-> TRUE, result |-> <<>>]
    ELSE IF c1[pos + l + 1] # fp /\ pos + l + 1 > Len(c2)
    THEN [panic |-> TRUE, result |-> <<>>]
    ELSE LET hit  == c1[pos + l + 1] = fp \/ c2[pos + l + 1] = fp
             rest == scan_slots(p, pos, l + 1, c1, c2, fp)
         IN  [panic |-> rest.panic,
              result |-> (IF hit THEN <<p.partition>> ELSE <<>>) \o rest.result]

\* a scan that advances pos by the width of active entries only
RECURSIVE scan_active_stride(_, _, _, _, _)
scan_active_stride(ps, pos, c1, c2, fp) ==
    IF ps = <<>> THEN [panic |-> FALSE, result |-> <<>>]
    ELSE LET p    == Head(ps)
             here == IF p.active THEN scan_slots(p, pos, 0, c1, c2, fp)
                     ELSE [panic |-> FALSE, result |-> <<>>]
         IN  IF here.panic THEN here
             ELSE LET rest == scan_active_stride(
                                Tail(ps),
                                IF p.active THEN pos + p.bucket_size ELSE pos,
                                c1, c2, fp)
                  IN  [panic |-> rest.panic, result |-> here.result \o rest.result]

RECURSIVE scan(_, _, _, _, _)
scan(ps, pos, c1, c2, fp) ==
    IF ps = <<>> THEN [panic |-> FALSE, result |-> <<>>]
    ELSE LET p    == Head(ps)
             here == IF p.active THEN scan_slots(p, pos, 0, c1, c2, fp)
                     ELSE [panic |-> FALSE, result |-> <<>>]
         IN  IF here.panic THEN here
             ELSE LET rest == scan(Tail(ps), pos + p.bucket_size, c1, c2, fp)
                  IN  [panic |-> rest.panic, result |-> here.result \o rest.result]

\* impl PartitionFilter for CuckooIndex: query
CuckooIndex_query(idx, key) ==
    LET fp      == fingerprint(key)
        bucket1 == bucket(key, Len(idx.buckets))
        bucket2 == flip_bucket(fp, bucket1, Len(idx.buckets))
    IN  scan(idx.partitions, 0, idx.buckets[bucket1 + 1], idx.buckets[bucket2 + 1], fp)

\* impl PartitionIndex for CuckooIndex: add, once the filter f is built
CuckooIndex_add(idx, f, partition) ==
    LET slots == idx.slots + entries_per_bucket(f)
        lists == drain(f)
    IN  [partitions |-> Append(idx.partitions, PartitionInfo(partition, f)),
         slots |-> slots,
         elements |-> idx.elements + elements(f),
         buckets |-> [i \in 1 .. Len(idx.buckets) |->
                        IF i <= Len(lists)
                        THEN LET appended == idx.buckets[i] \o lists[i]
                             IN  IF Len(appended) < slots
                                 THEN resize(appended, slots)
                                 ELSE appended
                        ELSE idx.buckets[i]]]

\* a column that receives the entries of the batch without place holders
RECURSIVE add_many_column_unpadded(_, _)
add_many_column_unpadded(filters, i) ==
    IF filters = <<>> THEN <<>>
    ELSE Head(filters).filter.data[i] \o add_many_column_unpadded(Tail(filters), i)

\* add_many: the entries one bucket column receives from the batch
RECURSIVE add_many_column(_, _)
add_many_column(filters, i) ==
    IF filters = <<>> THEN <<>>
    ELSE LET f == Head(filters).filter
         IN  f.data[i] \o Zeros(entries_per_bucket(f) - Len(f.data[i]))
               \o add_many_column(Tail(filters), i)

RECURSIVE add_many_slots(_)
add_many_slots(filters) ==
    IF filters = <<>> THEN 0
    ELSE entries_per_bucket(Head(filters).filter) + add_many_slots(Tail(filters))

RECURSIVE add_many_elements(_)
add_many_elements(filters) ==
    IF filters = <<>> THEN 0
    ELSE elements(Head(filters).filter) + add_many_elements(Tail(filters))

\* impl PartitionIndex for CuckooIndex: add_many, once the filters are built
CuckooIndex_add_many(idx, filters) ==
    [partitions |-> idx.partitions \o
                    [j \in 1 .. Len(filters) |->
                        PartitionInfo(filters[j].partition, filters[j].filter)],
     slots |-> idx.slots + add_many_slots(filters),
     elements |-> idx.elements + add_many_elements(filters),
     buckets |-> [i \in 1 .. Len(idx.buckets) |->
                    idx.buckets[i] \o add_many_column(filters, i)]]

\* add called once for each element of a batch, in batch order
RECURSIVE add_each(_, _)
add_each(idx, filters) ==
    IF filters = <<>> THEN idx
    ELSE add_each(CuckooIndex_add(idx, Head(filters).filter, Head(filters).partition),
                  Tail(filters))

\* impl PartitionIndex for CuckooIndex: remove
CuckooIndex_remove(idx, to_be_removed) ==
    [idx EXCEPT !.partitions =
        [j \in 1 .. Len(idx.partitions) |->
            IF idx.partitions[j].partition = to_be_removed
            THEN [idx.partitions[j] EXCEPT !.active = FALSE]
            ELSE idx.partitions[j]]]

(***************************************************************************)
(* index/poc/mod.rs: the files of a storage root.  A file is a sequence of *)
(* bytes, or does not exist.                                               *)
(***************************************************************************)
NoFile == [exists |-> FALSE, bytes |-> <<>>]

\* a byte view that keeps one byte of every u16
to_u8_slice_low(slice) == [i \in 1 .. Len(slice) |-> slice[i] % 256]

\* to_u8_slice: the two bytes of every u16, low byte first
to_u8_slice(slice) ==
    [i \in 1 .. 2 * Len(slice) |->
        IF i % 2 = 1 THEN slice[(i + 1) \div 2] % 256
        ELSE slice[i \div 2] \div 256]

\* a u16 view that takes the high byte first
to_u16_slice_be(bytes) ==
    [i \in 1 .. (Len(bytes) \div 2) |-> 256 * bytes[2 * i - 1] + bytes[2 * i]]

\* to_u16_slice: len / 2 values, a trailing odd byte is dropped
to_u16_slice(bytes) ==
    [i \in 1 .. (Len(bytes) \div 2) |-> bytes[2 * i - 1] + 256 * bytes[2 * i]]

\* a write that replaces the file instead of appending to it
file_replace(file, bytes) == [exists |-> TRUE, bytes |-> bytes]

\* OpenOptions append(true).create(true), then write_all
file_append(file, bytes) == [exists |-> TRUE, bytes |-> file.bytes \o bytes]

\* OpenOptions write(true).create(true), then a write from offset 0: the
\* file is not truncated, bytes past the written ones stay
file_overwrite(file, bytes) ==
    [exists |-> TRUE,
     bytes |-> bytes \o SubSeq(file.bytes, Len(bytes) + 1, Len(file.bytes))]

(***************************************************************************)
(* bincode of PersistentIndexData: the fields in declaration order, a Vec  *)
(* as its length followed by its items, a bool as 0 or 1.  One element of  *)
(* the sequence stands for one fixed-width field.                          *)
(***************************************************************************)
\* an encoding of an entry that writes every entry as active
serialize_partition_info_live(p) == <<p.partition, p.bucket_size, 1, p.elements>>

serialize_partition_info(p) ==
    <<p.partition, p.bucket_size, IF p.active THEN 1 ELSE 0, p.elements>>

RECURSIVE serialize_partitions(_)
serialize_partitions(ps) ==
    IF ps = <<>> THEN <<>>
    ELSE serialize_partition_info(Head(ps)) \o serialize_partitions(Tail(ps))

bincode_serialize(d) ==
    <<d.num_buckets, d.slots, Len(d.partitions)>> \o serialize_partitions(d.partitions)

deserialize_partition_info(bytes, at) ==
    [partition |-> bytes[at + 1],
     bucket_size |-> bytes[at + 2],
     active |-> bytes[at + 3] = 1,
     elements |-> bytes[at + 4]]

NoData == [num_buckets |-> 0, slots |-> 0, partitions |-> <<>>]

bincode_deserialize_from(bytes) ==
    IF Len(bytes) < 3 THEN [ok |-> FALSE, data |-> NoData]
    ELSE LET n == bytes[3]
         IN  IF Len(bytes) < 3 + 4 * n THEN [ok |-> FALSE, data |-> NoData]
             ELSE IF \E j \in 1 .. n : bytes[3 + 4 * (j - 1) + 3] \notin {0, 1}
             THEN [ok |-> FALSE, data |-> NoData]
             ELSE [ok |-> TRUE,
                   data |-> [num_buckets |-> bytes[1],
                             slots |-> bytes[2],
                             partitions |->
                                [j \in 1 .. n |->
                                    deserialize_partition_info(bytes, 3 + 4 * (j - 1))]]]

(***************************************************************************)
(* index/poc/mod.rs: PersistentIndex.                                      *)
(***************************************************************************)
PersistentIndex_try_new(buckets) ==
    [data |-> [num_buckets |-> buckets, slots |-> 0, partitions |-> <<>>],
     mem_index |-> CuckooIndex_new(buckets)]

\* a load that gives the in-memory index one column more than the manifest says
try_load_from_disk_wider(manifest) ==
    IF ~manifest.exists
    THEN [ok |-> FALSE, data |-> NoData, mem_index |-> CuckooIndex_new(0)]
    ELSE LET r == bincode_deserialize_from(manifest.bytes)
         IN  [ok |-> r.ok, data |-> r.data,
              mem_index |-> CuckooIndex_new(r.data.num_buckets + 1)]

PersistentIndex_try_load_from_disk(manifest) ==
    IF ~manifest.exists
    THEN [ok |-> FALSE, data |-> NoData, mem_index |-> CuckooIndex_new(0)]
    ELSE LET r == bincode_deserialize_from(manifest.bytes)
         IN  [ok |-> r.ok, data |-> r.data,
              mem_index |-> CuckooIndex_new(r.data.num_buckets)]

\* an append that puts the column in front of the bytes of the file
persist_bucket_file_front(file, column) ==
    [exists |-> TRUE, bytes |-> to_u8_slice(column) \o file.bytes]

\* persist: the bucket file of column idx after the append
persist_bucket_file(file, column) == file_append(file, to_u8_slice(column))

\* the order of the file operations of persist: create_dir_all, one append
\* per bucket column, the move of the generation into data, the open of
\* the manifest and its rewrite
persist_next_early(stage, idx, n) ==
    IF stage = "create_dir"
    THEN [stage |-> IF n > 0 THEN "bucket" ELSE "move", idx |-> 0]
    ELSE IF stage = "bucket" THEN [stage |-> "move", idx |-> idx + 1]
    ELSE IF stage = "move" THEN [stage |-> "manifest_open", idx |-> idx]
    ELSE IF stage = "manifest_open" THEN [stage |-> "manifest_write", idx |-> idx]
    ELSE [stage |-> "idle", idx |-> idx]

persist_next(stage, idx, n) ==
    IF stage = "create_dir"
    THEN [stage |-> IF n > 0 THEN "bucket" ELSE "move", idx |-> 0]
    ELSE IF stage = "bucket"
    THEN [stage |-> IF idx + 1 < n THEN "bucket" ELSE "move", idx |-> idx + 1]
    ELSE IF stage = "move" THEN [stage |-> "manifest_open", idx |-> idx]
    ELSE IF stage = "manifest_open" THEN [stage |-> "manifest_write", idx |-> idx]
    ELSE [stage |-> "idle", idx |-> idx]

\* an error return that drops the in-memory generation
persist_abort_reset(d, mem) ==
    [data |-> d, mem_index |-> CuckooIndex_new(d.num_buckets)]

\* persist: the handle after a `?` returned an error: nothing is undone and
\* nothing further is done
persist_abort(d, mem) == [data |-> d, mem_index |-> mem]

\* OpenOptions write(true).create(true).open: an absent file is created empty
file_open_create(file) == [exists |-> TRUE, bytes |-> file.bytes]

\* the write of one field at position pos of a file opened without truncate
file_write_at(file, pos, v) ==
    [exists |-> TRUE,
     bytes |-> IF pos <= Len(file.bytes) THEN [file.bytes EXCEPT ![pos] = v]
               ELSE Append(file.bytes, v)]

\* a move that puts the in-memory entries in front of the persisted ones
persist_data_front(d, mem) ==
    [d EXCEPT !.partitions = mem.partitions \o d.partitions,
              !.slots = mem.slots]

\* persist: the persisted data after the in-memory generation moved into it
persist_data(d, mem) ==
    [d EXCEPT !.partitions = d.partitions \o mem.partitions,
              !.slots = mem.slots]

\* persist: the manifest file after the rewrite
persist_manifest(manifest, d) == file_overwrite(manifest, bincode_serialize(d))

\* query_disk; status is Ok, Err (a bucket file cannot be read) or Panic
PersistentIndex_query_disk(d, files, key) ==
    IF d.partitions = <<>> THEN [status |-> "Ok", result |-> <<>>]
    ELSE LET fp      == fingerprint(key)
             bucket1 == bucket(key, d.num_buckets)
             bucket2 == flip_bucket(fp, bucket1, d.num_buckets)
         IN  IF bucket1 + 1 > Len(files) \/ bucket2 + 1 > Len(files)
             THEN [status |-> "Err", result |-> <<>>]
             ELSE IF ~files[bucket1 + 1].exists \/ ~files[bucket2 + 1].exists
             THEN [status |-> "Err", result |-> <<>>]
             ELSE LET r == scan(d.partitions, 0,
                                to_u16_slice(files[bucket1 + 1].bytes),
                                to_u16_slice(files[bucket2 + 1].bytes), fp)
                  IN  [status |-> IF r.panic THEN "Panic" ELSE "Ok",
                       result |-> r.result]

\* a query that answers from the in-memory generation when query_disk fails
PersistentIndex_query_partial(d, mem, files, key) ==
    LET disk_results == PersistentIndex_query_disk(d, files, key)
        mem_results  == CuckooIndex_query(mem, key)
    IN  IF disk_results.status = "Panic" \/ mem_results.panic
        THEN [status |-> "Panic", result |-> <<>>]
        ELSE [status |-> "Ok", result |-> disk_results.result \o mem_results.result]

\* impl PartitionFilter for PersistentIndex: query
PersistentIndex_query(d, mem, files, key) ==
    LET disk_results == PersistentIndex_query_disk(d, files, key)
    IN  IF disk_results.status # "Ok" THEN disk_results
        ELSE LET mem_results == CuckooIndex_query(mem, key)
             IN  IF mem_results.panic THEN [status |-> "Panic", result |-> <<>>]
                 ELSE [status |-> "Ok",
                       result |-> disk_results.result \o mem_results.result]

\* partitions(): the identifiers of the persisted entries, then of the
\* in-memory ones
PersistentIndex_partitions(d, mem) ==
    [j \in 1 .. (Len(d.partitions) + Len(mem.partitions)) |->
        (d.partitions \o mem.partitions)[j].partition]

\* impl PartitionIndex for PersistentIndex: remove
PersistentIndex_remove(mem, to_be_removed) == CuckooIndex_remove(mem, to_be_removed)

(***************************************************************************)
(* The state machine of one index handle on one storage root.              *)
(***************************************************************************)
AlgIdle == [op |-> "none", key |-> 0, fp |-> 0, buckets |-> 0, b |-> 0,
            r1 |-> 0, r2 |-> 0, chain |-> <<>>]

\* no filter under test: the filter of SpecFilter before its construction
FltIdle ==
    [filter |-> GrowableCuckooFilter_new(0), call |-> NoCall, key |-> 0,
     result |-> "None", before |-> GrowableCuckooFilter_new(0),
     inserted |-> {}, again |-> FALSE, evictions |-> 0, inserts |-> 0]

\* no fixed-width filter built: filter is the filter, before the filter when
\* the call in progress (or the last call) began, call the try_insert that
\* waits for its eviction choice, frames the slot and the evicted fingerprint
\* of each try_insert of the call that evicted, outermost first
CuckooIdle ==
    [filter |-> CuckooFilter_new(0, 0), before |-> CuckooFilter_new(0, 0),
     call |-> NoCall, frames |-> <<>>, result |-> "None", calls |-> 0]

\* no query call made: key is the key of the call, unreadable the bucket
\* files (by position) whose open or read_to_end fails during the call
NoQuery == [key |-> 0, unreadable |-> {}, status |-> "None", result |-> <<>>]

\* no persist call in progress.  stage is the file operation the call is
\* about to make, idx the number of bucket files it has appended to, written
\* the number of manifest fields it has written; before (the manifest file
\* when the call began), after (the manifest the call is writing),
\* generation (mem_index when the call began), disk_hits (what query_disk
\* returned for each key when the call began), retry (the call before this
\* one, on the same handle, failed in the bucket loop), failed and faults
\* are history.
\* a second handle on the same storage root that only queries: its manifest,
\* what query_disk returned for each key when it was opened, and the
\* position of its current query_disk call
NoReader == [stage |-> "none", data |-> NoData, hits |-> [k \in Keys |-> <<>>],
             key |-> 0, b1_data |-> <<>>, status |-> "None", result |-> <<>>]

IoIdle ==
    [stage |-> "idle", idx |-> 0, written |-> 0, result |-> "None",
     failed |-> "none", before |-> NoFile, after |-> <<>>,
     generation |-> CuckooIndex_new(0), faults |-> 0, persists |-> 0,
     query |-> NoQuery, disk_hits |-> [k \in Keys |-> <<>>], retry |-> FALSE,
     reader |-> NoReader]

\* the key iterators a caller can pass: at most MaxVals keys, in any order,
\* repetitions allowed
KeySeqs == UNION {[1 .. n -> Keys] : n \in 0 .. MaxVals}

Range(seq) == {seq[i] : i \in 1 .. Len(seq)}

NumEntries == Len(data.partitions) + Len(mem_index.partitions)

\* history: the partition, the key set and the filter a manifest entry was
\* built from, and whether remove was called for its partition since
GhostOf(partition, keys, f) ==
    [partition |-> partition, keys |-> keys, lists |-> f.data,
     width |-> f.entries_per_bucket, removed |-> FALSE]

GhostRemove(g, ps, to_be_removed) ==
    [j \in 1 .. Len(g) |->
        IF ps[j].partition = to_be_removed THEN [g[j] EXCEPT !.removed = TRUE]
        ELSE g[j]]

\* add_many: the batches of built filters a batch of (partition, iterator)
\* pairs of length n can produce
RECURSIVE Batches(_, _)
Batches(n, buckets) ==
    IF n = 0 THEN {<<>>}
    ELSE UNION {
            {<<[partition |-> p, filter |-> f, keys |-> Range(vs)]>> \o rest :
                f \in index_single_partition({GrowableCuckooFilter_new(buckets)}, vs),
                rest \in Batches(n - 1, buckets)} :
            p \in PartitionIds, vs \in KeySeqs}

Init ==
    \E n \in BucketCounts :
        /\ data = PersistentIndex_try_new(n).data
        /\ mem_index = PersistentIndex_try_new(n).mem_index
        /\ partitions_data = NoFile
        /\ bucket_files = [i \in 1 .. n |-> NoFile]
        /\ mem_ghost = <<>>
        /\ data_ghost = <<>>
        /\ disk_ghost = <<>>
        /\ alg = AlgIdle
        /\ flt = FltIdle
        /\ io = IoIdle
        /\ cuckoo = CuckooIdle

\* an add that also appends the new columns to the bucket files
AddWriteThrough(partition, values) ==
    /\ Len(data.partitions) + Len(mem_index.partitions) < MaxParts
    /\ \E f \in index_single_partition(
                    {GrowableCuckooFilter_new(Len(mem_index.buckets))}, values) :
          /\ mem_index' = CuckooIndex_add(mem_index, f, partition)
          /\ mem_ghost' = Append(mem_ghost, GhostOf(partition, Range(values), f))
          /\ bucket_files' =
                [i \in 1 .. Len(bucket_files) |->
                    persist_bucket_file(bucket_files[i], f.data[i])]
    /\ UNCHANGED <<data, partitions_data, data_ghost, disk_ghost, alg, cuckoo, flt, io>>

\* add(values, partition)
Add(partition, values) ==
    /\ NumEntries < MaxParts
    /\ \E f \in index_single_partition(
                    {GrowableCuckooFilter_new(Len(mem_index.buckets))}, values) :
          /\ mem_index' = CuckooIndex_add(mem_index, f, partition)
          /\ mem_ghost' = Append(mem_ghost, GhostOf(partition, Range(values), f))
    /\ UNCHANGED <<data, partitions_data, bucket_files, data_ghost, disk_ghost, alg, cuckoo, flt, io>>

\* add_many(partitions), for a batch of n (partition, iterator) pairs
AddMany(n) ==
    /\ NumEntries + n <= MaxParts
    /\ \E filters \in Batches(n, Len(mem_index.buckets)) :
          /\ mem_index' = CuckooIndex_add_many(mem_index, filters)
          /\ mem_ghost' = mem_ghost \o
                [j \in 1 .. Len(filters) |->
                    GhostOf(filters[j].partition, filters[j].keys, filters[j].filter)]
    /\ UNCHANGED <<data, partitions_data, bucket_files, data_ghost, disk_ghost, alg, cuckoo, flt, io>>

\* remove(to_be_removed)
Remove(to_be_removed) ==
    /\ mem_index' = PersistentIndex_remove(mem_index, to_be_removed)
    /\ mem_ghost' = GhostRemove(mem_ghost, mem_index.partitions, to_be_removed)
    /\ data_ghost' = GhostRemove(data_ghost, data.partitions, to_be_removed)
    /\ UNCHANGED <<data, partitions_data, bucket_files, disk_ghost, alg, cuckoo, flt, io>>

\* persist(), every file operation succeeding
Persist ==
    /\ bucket_files' =
          [i \in 1 .. Len(bucket_files) |->
              IF i <= Len(mem_index.buckets)
              THEN persist_bucket_file(bucket_files[i], mem_index.buckets[i])
              ELSE bucket_files[i]]
    /\ data' = persist_data(data, mem_index)
    /\ mem_index' = CuckooIndex_new(data.num_buckets)
    /\ partitions_data' = persist_manifest(partitions_data, data')
    /\ data_ghost' = data_ghost \o mem_ghost
    /\ mem_ghost' = <<>>
    /\ disk_ghost' = data_ghost'
    /\ UNCHANGED <<alg, cuckoo, flt, io>>

\* the handle is dropped and the index reopened with try_load_from_disk
Load ==
    /\ LET r == PersistentIndex_try_load_from_disk(partitions_data)
       IN  /\ r.ok
           /\ data' = r.data
           /\ mem_index' = r.mem_index
    /\ data_ghost' = disk_ghost
    /\ mem_ghost' = <<>>
    /\ UNCHANGED <<partitions_data, bucket_files, disk_ghost, alg, cuckoo, flt, io>>

Next ==
    \/ \E p \in PartitionIds, vs \in KeySeqs : Add(p, vs)
    \/ \E n \in 0 .. MaxParts : AddMany(n)
    \/ \E p \in PartitionIds : Remove(p)
    \/ Persist
    \/ Load

Spec == Init /\ [][Next]_vars

(***************************************************************************)
(* The pure functions of filter/cuckoo/mod.rs, applied to every word.      *)
(***************************************************************************)
AlgInit ==
    /\ data = PersistentIndex_try_new(1).data
    /\ mem_index = PersistentIndex_try_new(1).mem_index
    /\ partitions_data = NoFile
    /\ bucket_files = <<NoFile>>
    /\ mem_ghost = <<>>
    /\ data_ghost = <<>>
    /\ disk_ghost = <<>>
    /\ alg = AlgIdle
    /\ flt = FltIdle
    /\ io = IoIdle
    /\ cuckoo = CuckooIdle

\* fingerprint(key); r1 is the number of rounds its loop made
AlgFingerprint(key) ==
    /\ alg.op = "none"
    /\ alg' = [op |-> "fingerprint", key |-> key, fp |-> fingerprint(key),
               buckets |-> 0, b |-> 0,
               r1 |-> fingerprint_rounds(DefaultHasher_new, key), r2 |-> 0,
               chain |-> <<>>]
    /\ UNCHANGED <<data, mem_index, partitions_data, bucket_files,
                   mem_ghost, data_ghost, disk_ghost, flt, cuckoo, io>>

\* flip_bucket applied twice to a bucket b < buckets
AlgFlipBucket(fp, buckets, b) ==
    /\ alg.op = "none"
    /\ b < buckets
    /\ LET b1 == flip_bucket(fp, b, buckets)
       IN  alg' = [op |-> "flip_bucket", key |-> 0, fp |-> fp,
                   buckets |-> buckets, b |-> b,
                   r1 |-> b1, r2 |-> flip_bucket(fp, b1, buckets),
                   chain |-> <<>>]
    /\ UNCHANGED <<data, mem_index, partitions_data, bucket_files,
                   mem_ghost, data_ghost, disk_ghost, flt, cuckoo, io>>

\* the round trip of prop_tests::bucket_roundtrip from bucket(key, buckets)
AlgBucketRoundtrip(key, buckets) ==
    /\ alg.op = "none"
    /\ LET fp == fingerprint(key)
           b0 == bucket(key, buckets)
           b1 == flip_bucket(fp, b0, buckets)
       IN  alg' = [op |-> "bucket_roundtrip", key |-> key, fp |-> fp,
                   buckets |-> buckets, b |-> b0,
                   r1 |-> b1, r2 |-> flip_bucket(fp, b1, buckets),
                   chain |-> <<>>]
    /\ UNCHANGED <<data, mem_index, partitions_data, bucket_files,
                   mem_ghost, data_ghost, disk_ghost, flt, cuckoo, io>>

\* the buckets b0 .. b(n-1) of growable.rs tests::bucket_roundtrip: n - 1
\* flips from bucket b0
RECURSIVE flip_chain(_, _, _, _)
flip_chain(fp, b0, buckets, n) ==
    IF n <= 1 THEN <<b0>>
    ELSE <<b0>> \o flip_chain(fp, GrowableCuckooFilter_flip_bucket(fp, b0, buckets),
                              buckets, n - 1)

\* growable.rs tests::bucket_roundtrip(key, buckets): chain[i + 1] is b_i
AlgGrowableRoundtrip(key, buckets) ==
    /\ alg.op = "none"
    /\ LET fp == fingerprint(key)
           b0 == GrowableCuckooFilter_bucket(key, fp, buckets)
       IN  alg' = [op |-> "growable_roundtrip", key |-> key, fp |-> fp,
                   buckets |-> buckets, b |-> b0, r1 |-> 0, r2 |-> 0,
                   chain |-> flip_chain(fp, b0, buckets, 6)]
    /\ UNCHANGED <<data, mem_index, partitions_data, bucket_files,
                   mem_ghost, data_ghost, disk_ghost, flt, cuckoo, io>>

AlgNext ==
    \/ \E key \in 0 .. (Word - 1) : AlgFingerprint(key)
    \/ \E fp \in Fingerprints, n \in 1 .. (Word - 1), b \in 0 .. (Word - 1) :
          AlgFlipBucket(fp, n, b)
    \/ \E key \in 0 .. (Word - 1), n \in 1 .. (Word - 1) : AlgBucketRoundtrip(key, n)
    \/ \E key \in 0 .. (Word - 1), n \in 1 .. (Word - 1) : AlgGrowableRoundtrip(key, n)

SpecAlgebra == AlgInit /\ [][AlgNext]_vars

(***************************************************************************)
(* The index with persist as the sequence of its file operations, each of  *)
(* which can fail with an I/O error, and with the process dying between    *)
(* any two of them.                                                        *)
(***************************************************************************)
CrashKeySeqs == UNION {[1 .. n -> Keys] : n \in 1 .. MaxCrashVals}

CrashInit == Init /\ Len(bucket_files) <= MaxCrashBuckets

CrashAdd(partition, values) == io.stage = "idle" /\ Add(partition, values)

CrashRemove(to_be_removed) == io.stage = "idle" /\ Remove(to_be_removed)

\* persist() is called
PersistStart ==
    /\ io.stage = "idle"
    /\ io.persists < MaxPersists
    /\ io' = [io EXCEPT !.stage = "create_dir", !.idx = 0, !.written = 0,
                        !.persists = io.persists + 1,
                        !.result = "None", !.failed = "none",
                        !.before = partitions_data, !.after = <<>>,
                        !.generation = mem_index,
                        !.retry = (io.result = "Err" /\ io.failed = "bucket"),
                        !.disk_hits =
                            [k \in Keys |->
                                PersistentIndex_query_disk(data, bucket_files, k).result]]
    /\ UNCHANGED <<data, mem_index, partitions_data, bucket_files,
                   mem_ghost, data_ghost, disk_ghost, alg, cuckoo, flt>>

\* fs::create_dir_all succeeds
PersistCreateDir ==
    /\ io.stage = "create_dir"
    /\ LET nx == persist_next(io.stage, io.idx, Len(mem_index.buckets))
       IN  io' = [io EXCEPT !.stage = nx.stage, !.idx = nx.idx]
    /\ UNCHANGED <<data, mem_index, partitions_data, bucket_files,
                   mem_ghost, data_ghost, disk_ghost, alg, cuckoo, flt>>

\* the append of column idx to its bucket file succeeds
PersistAppend ==
    /\ io.stage = "bucket"
    /\ bucket_files' =
          [bucket_files EXCEPT ![io.idx + 1] =
              persist_bucket_file(@, mem_index.buckets[io.idx + 1])]
    /\ LET nx == persist_next(io.stage, io.idx, Len(mem_index.buckets))
       IN  io' = [io EXCEPT !.stage = nx.stage, !.idx = nx.idx]
    /\ UNCHANGED <<data, mem_index, partitions_data,
                   mem_ghost, data_ghost, disk_ghost, alg, cuckoo, flt>>

\* write_all of column idx fails after k of its bytes reached the file
PersistAppendPartial(k) ==
    /\ io.stage = "bucket"
    /\ io.faults < MaxFaults
    /\ LET bytes == to_u8_slice(mem_index.buckets[io.idx + 1])
           h == persist_abort(data, mem_index)
       IN  /\ k < Len(bytes)
           /\ bucket_files' =
                 [bucket_files EXCEPT ![io.idx + 1] = file_append(@, SubSeq(bytes, 1, k))]
           /\ data' = h.data
           /\ mem_index' = h.mem_index
    /\ io' = [io EXCEPT !.stage = "idle", !.result = "Err", !.failed = io.stage,
                        !.faults = io.faults + 1]
    /\ UNCHANGED <<partitions_data, mem_ghost, data_ghost, disk_ghost, alg, cuckoo, flt>>

\* the file operation persist is about to make returns an error
PersistFail ==
    /\ io.stage \in {"create_dir", "bucket", "manifest_open", "manifest_write"}
    /\ io.faults < MaxFaults
    /\ LET h == persist_abort(data, mem_index)
       IN  /\ data' = h.data
           /\ mem_index' = h.mem_index
    /\ io' = [io EXCEPT !.stage = "idle", !.result = "Err", !.failed = io.stage,
                        !.faults = io.faults + 1]
    /\ UNCHANGED <<partitions_data, bucket_files,
                   mem_ghost, data_ghost, disk_ghost, alg, cuckoo, flt>>

\* the generation moves into data and mem_index is replaced by a new one
PersistMove ==
    /\ io.stage = "move"
    /\ data' = persist_data(data, mem_index)
    /\ mem_index' = CuckooIndex_new(data.num_buckets)
    /\ data_ghost' = data_ghost \o mem_ghost
    /\ mem_ghost' = <<>>
    /\ LET nx == persist_next(io.stage, io.idx, Len(mem_index.buckets))
       IN  io' = [io EXCEPT !.stage = nx.stage, !.idx = nx.idx,
                           !.after = bincode_serialize(data')]
    /\ UNCHANGED <<partitions_data, bucket_files, disk_ghost, alg, cuckoo, flt>>

\* partitions.data is opened for writing, and created if it is absent
PersistManifestOpen ==
    /\ io.stage = "manifest_open"
    /\ partitions_data' = file_open_create(partitions_data)
    /\ LET nx == persist_next(io.stage, io.idx, Len(mem_index.buckets))
       IN  io' = [io EXCEPT !.stage = nx.stage, !.idx = nx.idx]
    /\ UNCHANGED <<data, mem_index, bucket_files,
                   mem_ghost, data_ghost, disk_ghost, alg, cuckoo, flt>>

\* serialize_into writes the next field of the manifest; after the last
\* one persist returns Ok
PersistManifestWrite ==
    /\ io.stage = "manifest_write"
    /\ LET bytes == bincode_serialize(data)
           pos   == io.written + 1
       IN  /\ partitions_data' = file_write_at(partitions_data, pos, bytes[pos])
           /\ IF pos < Len(bytes)
              THEN /\ io' = [io EXCEPT !.written = pos]
                   /\ UNCHANGED disk_ghost
              ELSE /\ io' = [io EXCEPT !.stage = "idle", !.written = 0,
                                       !.result = "Ok",
                                       !.before = partitions_data',
                                       !.after = <<>>,
                                       !.generation = CuckooIndex_new(0),
                                       !.disk_hits = [k \in Keys |-> <<>>]]
                   /\ disk_ghost' = data_ghost
    /\ UNCHANGED <<data, mem_index, bucket_files, mem_ghost, data_ghost, alg, cuckoo, flt>>

\* the process dies inside persist: the handle is gone, the files stay
Crash ==
    /\ io.stage \notin {"idle", "crashed"}
    /\ io.faults < MaxFaults
    /\ data' = NoData
    /\ mem_index' = CuckooIndex_new(0)
    /\ mem_ghost' = <<>>
    /\ data_ghost' = <<>>
    /\ io' = [io EXCEPT !.stage = "crashed", !.failed = io.stage,
                        !.faults = io.faults + 1]
    /\ UNCHANGED <<partitions_data, bucket_files, disk_ghost, alg, cuckoo, flt>>

\* the index is reopened with try_load_from_disk
CrashLoad ==
    /\ io.stage \in {"idle", "crashed"}
    /\ LET r == PersistentIndex_try_load_from_disk(partitions_data)
       IN  /\ r.ok
           /\ data' = r.data
           /\ mem_index' = r.mem_index
    /\ data_ghost' = disk_ghost
    /\ mem_ghost' = <<>>
    /\ io' = [io EXCEPT !.stage = "idle", !.idx = 0, !.written = 0,
                        !.result = "Loaded", !.before = partitions_data,
                        !.after = <<>>, !.generation = CuckooIndex_new(0)]
    /\ UNCHANGED <<partitions_data, bucket_files, disk_ghost, alg, cuckoo, flt>>

CrashNext ==
    \/ \E p \in PartitionIds, vs \in CrashKeySeqs : CrashAdd(p, vs)
    \/ \E p \in PartitionIds : CrashRemove(p)
    \/ PersistStart
    \/ PersistCreateDir
    \/ PersistAppend
    \/ \E k \in 1 .. (2 * MaxParts * MaxCrashVals) : PersistAppendPartial(k)
    \/ PersistFail
    \/ PersistMove
    \/ PersistManifestOpen
    \/ PersistManifestWrite
    \/ Crash
    \/ CrashLoad

SpecCrash == CrashInit /\ [][CrashNext]_vars

(***************************************************************************)
(* A second handle on the same storage root queries while the first one    *)
(* persists: each load_bucket of query_disk is a step of its own, and a    *)
(* read of the bucket file that is being appended to sees any prefix of    *)
(* the bytes write_all is writing.                                         *)
(***************************************************************************)
\* read_to_end of bucket file b while k bytes of the column that persist is
\* appending have reached it
Visible(b, k) ==
    IF io.stage = "bucket" /\ io.idx = b
    THEN bucket_files[b + 1].bytes
            \o SubSeq(to_u8_slice(mem_index.buckets[b + 1]), 1, k)
    ELSE bucket_files[b + 1].bytes

\* the bytes of the column that persist is appending to bucket file b
Pending(b) ==
    IF io.stage = "bucket" /\ io.idx = b
    THEN Len(to_u8_slice(mem_index.buckets[b + 1]))
    ELSE 0

\* try_load_from_disk by the second handle, while no persist is running
ReaderOpen ==
    /\ io.stage = "idle"
    /\ io.reader.stage # "b1"
    /\ LET r == PersistentIndex_try_load_from_disk(partitions_data)
       IN  /\ r.ok
           /\ io' = [io EXCEPT !.reader =
                        [NoReader EXCEPT
                            !.stage = "idle", !.data = r.data,
                            !.hits = [k \in Keys |->
                                PersistentIndex_query_disk(r.data, bucket_files, k).result]]]
    /\ UNCHANGED <<data, mem_index, partitions_data, bucket_files,
                   mem_ghost, data_ghost, disk_ghost, alg, cuckoo, flt>>

\* query_disk(key) of the second handle up to its first load_bucket
ReaderLoadBucket1(key, k) ==
    /\ io.reader.stage \in {"idle", "done"}
    /\ LET d       == io.reader.data
           bucket1 == bucket(key, d.num_buckets)
       IN  IF d.partitions = <<>>
           THEN /\ k = 0
                /\ io' = [io EXCEPT !.reader.stage = "done", !.reader.key = key,
                                    !.reader.b1_data = <<>>,
                                    !.reader.status = "Ok", !.reader.result = <<>>]
           ELSE IF ~bucket_files[bucket1 + 1].exists
           THEN /\ k = 0
                /\ io' = [io EXCEPT !.reader.stage = "done", !.reader.key = key,
                                    !.reader.b1_data = <<>>,
                                    !.reader.status = "Err", !.reader.result = <<>>]
           ELSE /\ k <= Pending(bucket1)
                /\ io' = [io EXCEPT !.reader.stage = "b1", !.reader.key = key,
                                    !.reader.b1_data = Visible(bucket1, k),
                                    !.reader.status = "None", !.reader.result = <<>>]
    /\ UNCHANGED <<data, mem_index, partitions_data, bucket_files,
                   mem_ghost, data_ghost, disk_ghost, alg, cuckoo, flt>>

\* the second load_bucket and the scan of the manifest entries
ReaderLoadBucket2(k) ==
    /\ io.reader.stage = "b1"
    /\ LET d       == io.reader.data
           fp      == fingerprint(io.reader.key)
           bucket1 == bucket(io.reader.key, d.num_buckets)
           bucket2 == flip_bucket(fp, bucket1, d.num_buckets)
       IN  IF ~bucket_files[bucket2 + 1].exists
           THEN /\ k = 0
                /\ io' = [io EXCEPT !.reader.stage = "done",
                                    !.reader.status = "Err", !.reader.result = <<>>]
           ELSE /\ k <= Pending(bucket2)
                /\ LET r == scan(d.partitions, 0,
                                 to_u16_slice(io.reader.b1_data),
                                 to_u16_slice(Visible(bucket2, k)), fp)
                   IN  io' = [io EXCEPT !.reader.stage = "done",
                                       !.reader.status =
                                           IF r.panic THEN "Panic" ELSE "Ok",
                                       !.reader.result = r.result]
    /\ UNCHANGED <<data, mem_index, partitions_data, bucket_files,
                   mem_ghost, data_ghost, disk_ghost, alg, cuckoo, flt>>

ReaderNext ==
    \/ \E p \in PartitionIds, vs \in CrashKeySeqs : CrashAdd(p, vs)
    \/ \E p \in PartitionIds : CrashRemove(p)
    \/ PersistStart
    \/ PersistCreateDir
    \/ PersistAppend
    \/ PersistMove
    \/ PersistManifestOpen
    \/ PersistManifestWrite
    \/ ReaderOpen
    \/ \E key \in Keys, k \in 0 .. (2 * MaxParts * MaxCrashVals) :
          ReaderLoadBucket1(key, k)
    \/ \E k \in 0 .. (2 * MaxParts * MaxCrashVals) : ReaderLoadBucket2(k)

SpecReader == CrashInit /\ [][ReaderNext]_vars

(***************************************************************************)
(* The index with query calls during which the open or the read of some    *)
(* bucket files fails.  query takes &self: the call is recorded in         *)
(* io.query and changes nothing else.                                      *)
(***************************************************************************)
\* load_bucket on the files of the storage root when those in unreadable fail
Unreadable(files, unreadable) ==
    [i \in 1 .. Len(files) |-> IF i \in unreadable THEN NoFile ELSE files[i]]

QueryAdd(partition, values) == io.query = NoQuery /\ Add(partition, values)

QueryRemove(to_be_removed) == io.query = NoQuery /\ Remove(to_be_removed)

QueryPersist == io.query = NoQuery /\ Persist

QueryLoad == io.query = NoQuery /\ Load

\* query(key)
QueryCall(key, unreadable) ==
    /\ io.query = NoQuery
    /\ LET r == PersistentIndex_query(data, mem_index,
                                      Unreadable(bucket_files, unreadable), key)
       IN  io' = [io EXCEPT !.query = [key |-> key, unreadable |-> unreadable,
                                       status |-> r.status, result |-> r.result]]
    /\ UNCHANGED <<data, mem_index, partitions_data, bucket_files,
                   mem_ghost, data_ghost, disk_ghost, alg, cuckoo, flt>>

QueryNext ==
    \/ \E p \in PartitionIds, vs \in KeySeqs : QueryAdd(p, vs)
    \/ \E p \in PartitionIds : QueryRemove(p)
    \/ QueryPersist
    \/ QueryLoad
    \/ \E key \in Keys, unreadable \in SUBSET (1 .. Len(bucket_files)) :
          QueryCall(key, unreadable)

SpecQuery == Init /\ [][QueryNext]_vars

(***************************************************************************)
(* One GrowableCuckooFilter: insert calls, each eviction of try_insert a   *)
(* step of its own with the entry gen_range drew.                          *)
(***************************************************************************)
FilterInit ==
    /\ data = PersistentIndex_try_new(1).data
    /\ mem_index = PersistentIndex_try_new(1).mem_index
    /\ partitions_data = NoFile
    /\ bucket_files = <<NoFile>>
    /\ mem_ghost = <<>>
    /\ data_ghost = <<>>
    /\ disk_ghost = <<>>
    /\ alg = AlgIdle
    /\ io = IoIdle
    /\ cuckoo = CuckooIdle
    /\ \E n \in 1 .. MaxFilterBuckets :
          flt = [FltIdle EXCEPT !.filter = GrowableCuckooFilter_new(n),
                                !.before = GrowableCuckooFilter_new(n)]

\* insert(key), up to its first eviction
FilterInsert(key) ==
    /\ ~flt.call.pending
    /\ flt.inserts < MaxInserts
    /\ LET r == insert(flt.filter, key)
       IN  flt' = [filter |-> r.filter, call |-> r.call, key |-> key,
                   result |-> r.result, before |-> flt.filter,
                   inserted |-> flt.inserted \cup {key},
                   again |-> key \in flt.inserted,
                   evictions |-> 0, inserts |-> flt.inserts + 1]
    /\ UNCHANGED <<data, mem_index, partitions_data, bucket_files,
                   mem_ghost, data_ghost, disk_ghost, alg, cuckoo, io>>

\* the pending try_insert evicts the entry gen_range drew and recurses
FilterEvict(entry) ==
    /\ flt.call.pending
    /\ entry \in 1 .. Len(flt.filter.data[flt.call.bucket + 1])
    /\ LET r == try_insert_evict(flt.filter, flt.call, entry)
       IN  flt' = [flt EXCEPT !.filter = r.filter, !.call = r.call,
                              !.result = r.result,
                              !.evictions = flt.evictions + 1]
    /\ UNCHANGED <<data, mem_index, partitions_data, bucket_files,
                   mem_ghost, data_ghost, disk_ghost, alg, cuckoo, io>>

FilterNext ==
    \/ \E key \in 0 .. MaxFilterKey : FilterInsert(key)
    \/ \E entry \in 1 .. (MaxInserts + 1) : FilterEvict(entry)

SpecFilter == FilterInit /\ [][FilterNext]_vars

(***************************************************************************)
(* One fixed-width CuckooFilter: insert and try_insert calls, each         *)
(* eviction a step of its own with the slot gen_range drew; the return     *)
(* path of the recursion runs in the step that ends the call.              *)
(***************************************************************************)
CuckooInit ==
    /\ data = PersistentIndex_try_new(1).data
    /\ mem_index = PersistentIndex_try_new(1).mem_index
    /\ partitions_data = NoFile
    /\ bucket_files = <<NoFile>>
    /\ mem_ghost = <<>>
    /\ data_ghost = <<>>
    /\ disk_ghost = <<>>
    /\ alg = AlgIdle
    /\ flt = FltIdle
    /\ io = IoIdle
    /\ \E n \in 1 .. MaxCuckooBuckets, e \in 1 .. MaxCuckooEntries :
          cuckoo = [CuckooIdle EXCEPT !.filter = CuckooFilter_new(n, e),
                                      !.before = CuckooFilter_new(n, e)]

\* what a call, or a step of it, leaves: a Rejected result went through the
\* return path of every frame
CuckooStep(r, frames, before, calls) ==
    [filter |-> IF r.result = "Rejected"
                THEN [r.filter EXCEPT !.data = restore(r.filter.data, frames)]
                ELSE r.filter,
     before |-> before, call |-> r.call, frames |-> frames,
     result |-> r.result, calls |-> calls]

\* insert(key), up to its first eviction
CuckooInsert(key) ==
    /\ ~cuckoo.call.pending
    /\ cuckoo.calls < MaxCuckooCalls
    /\ cuckoo' = CuckooStep(CuckooFilter_insert(cuckoo.filter, key), <<>>,
                            cuckoo.filter, cuckoo.calls + 1)
    /\ UNCHANGED <<data, mem_index, partitions_data, bucket_files,
                   mem_ghost, data_ghost, disk_ghost, alg, flt, io>>

\* try_insert(fingerprint, bucket, tries_left), up to its first eviction
CuckooTryInsert(fp, b, tries_left) ==
    /\ ~cuckoo.call.pending
    /\ cuckoo.calls < MaxCuckooCalls
    /\ b < cuckoo.filter.buckets
    /\ cuckoo' = CuckooStep(CuckooFilter_try_insert(cuckoo.filter, fp, b, tries_left),
                            <<>>, cuckoo.filter, cuckoo.calls + 1)
    /\ UNCHANGED <<data, mem_index, partitions_data, bucket_files,
                   mem_ghost, data_ghost, disk_ghost, alg, flt, io>>

\* the pending try_insert evicts the entry gen_range drew and recurses
CuckooEvict(entry) ==
    /\ cuckoo.call.pending
    /\ entry < cuckoo.filter.entries_per_bucket
    /\ LET r == CuckooFilter_try_insert_evict(cuckoo.filter, cuckoo.call, entry)
       IN  cuckoo' = CuckooStep(r, Append(cuckoo.frames, r.frame),
                               cuckoo.before, cuckoo.calls)
    /\ UNCHANGED <<data, mem_index, partitions_data, bucket_files,
                   mem_ghost, data_ghost, disk_ghost, alg, flt, io>>

CuckooNext ==
    \/ \E key \in 0 .. MaxFilterKey : CuckooInsert(key)
    \/ \E fp \in Fingerprints, b \in 0 .. (MaxCuckooBuckets - 1),
          tries_left \in 0 .. u8_MAX : CuckooTryInsert(fp, b, tries_left)
    \/ \E entry \in 0 .. (MaxCuckooEntries - 1) : CuckooEvict(entry)

SpecCuckoo == CuckooInit /\ [][CuckooNext]_vars

(***************************************************************************)
(* Properties.                                                             *)
(***************************************************************************)
\* the query of the current handle
Query(key) == PersistentIndex_query(data, mem_index, bucket_files, key)

\* the partitions query(key) reports
Hits(key) == Range(Query(key).result)

\* the manifest a reader finds on disk
DiskData == bincode_deserialize_from(partitions_data.bytes).data

\* every query of the current handle returns Ok
QueriesOk == \A k \in Keys : Query(k).status = "Ok"

\* the manifest entries of the handle, persisted ones first, and their history
AllPartitions == data.partitions \o mem_index.partitions

AllGhost == data_ghost \o mem_ghost

\* the slot range of entry i of a manifest starts after the widths before it
Offset(ps, i) == SumWidth(SubSeq(ps, 1, i - 1))

\* a bucket list of a filter as it lies in a column: padded to the width
Padded(list, width) == list \o Zeros(width - Len(list))

\* entry i of manifest ps lies in columns cols exactly as its filter gave it
Aligned(ps, ghost, cols, i) ==
    /\ ps[i].partition = ghost[i].partition
    /\ ps[i].bucket_size = ghost[i].width
    /\ \A b \in 1 .. Len(cols) :
          /\ Len(cols[b]) >= Offset(ps, i) + ps[i].bucket_size
          /\ SubSeq(cols[b], Offset(ps, i) + 1, Offset(ps, i) + ps[i].bucket_size)
                = Padded(ghost[i].lists[b], ps[i].bucket_size)

\* C1: no false negatives: every key of a partition that was added and not
\* removed since is answered with that partition, whether its entry is in
\* the in-memory generation or in the persisted one.
C1_NoFalseNegatives ==
    \A j \in 1 .. Len(AllPartitions) :
        ~AllGhost[j].removed =>
            \A k \in AllGhost[j].keys : AllPartitions[j].partition \in Hits(k)

\* C2: tombstone: once remove(P) was called for every entry of P, no query
\* returns P, whichever generation the entries of P were in.
C2_Tombstone ==
    \A p \in PartitionIds :
        (/\ \E j \in 1 .. Len(AllPartitions) : AllPartitions[j].partition = p
         /\ \A j \in 1 .. Len(AllPartitions) :
               AllPartitions[j].partition = p => AllGhost[j].removed)
        => \A k \in Keys : p \notin Hits(k)

\* C3: query round trip: the index loaded from the storage root right after
\* a persist answers every key with the same set of partitions as the
\* persisting index did right before the persist.
C3_QueryRoundTrip ==
    [][Persist =>
        LET l == PersistentIndex_try_load_from_disk(partitions_data')
        IN  /\ l.ok
            /\ \A k \in Keys :
                  LET q == PersistentIndex_query(l.data, l.mem_index, bucket_files', k)
                  IN  /\ q.status = "Ok"
                      /\ Query(k).status = "Ok"
                      /\ Range(q.result) = Hits(k)]_vars

\* a persisted generation of two partitions answers a key from the bucket
\* files, one of the partitions being tombstoned
C3_Witness ==
    /\ Len(data.partitions) = 2
    /\ mem_index.partitions = <<>>
    /\ \E j \in 1 .. 2 : ~data.partitions[j].active
    /\ \E k \in Keys : Hits(k) # {}

\* C4: partner involution: flip_bucket applied twice with the same
\* fingerprint returns the bucket it started from, for every bucket count,
\* every fingerprint and every bucket below the count, the bucket of a key
\* included.
C4_PartnerInvolution ==
    alg.op \in {"flip_bucket", "bucket_roundtrip"} => alg.r2 = alg.b

\* C5: fingerprint(k) is never 0: it lies in 1 .. FpMod - 1 for every key.
C5_FingerprintNonZero ==
    alg.op = "fingerprint" => alg.fp \in 1 .. (FpMod - 1)

\* the loop of fingerprint went round more than once: the first digest of
\* the key had all its low bits zero
C5_Witness == alg.op = "fingerprint" /\ alg.r1 > 1

\* C6: bucket stride: every column of the in-memory index has length slots,
\* the sum of the widths of all partitions in the in-memory list.
C6_BucketStride ==
    /\ mem_index.slots = SumWidth(mem_index.partitions)
    /\ \A b \in 1 .. Len(mem_index.buckets) :
          Len(mem_index.buckets[b]) = mem_index.slots

\* two in-memory partitions, one of them tombstoned, the columns three
\* slots long with a padding zero in one of them
C6_Witness ==
    /\ Len(mem_index.partitions) = 2
    /\ mem_index.slots = 3
    /\ \E j \in 1 .. 2 : ~mem_index.partitions[j].active
    /\ \E b \in 1 .. Len(mem_index.buckets) :
          \E i \in 1 .. Len(mem_index.buckets[b]) : mem_index.buckets[b][i] = 0

\* C7: once a persist succeeded the index directory holds one file per
\* bucket, each 2 * (sum of the widths of the persisted manifest) bytes long.
C7_BucketFileSizes ==
    partitions_data.exists =>
        /\ Len(bucket_files) = DiskData.num_buckets
        /\ \A b \in 1 .. Len(bucket_files) :
              /\ bucket_files[b].exists
              /\ Len(bucket_files[b].bytes) = 2 * SumWidth(DiskData.partitions)

\* two persist cycles left two partitions of different widths on disk
C7_Witness ==
    /\ partitions_data.exists
    /\ Len(DiskData.partitions) = 2
    /\ DiskData.slots # SumWidth(DiskData.partitions)
    /\ DiskData.partitions[1].bucket_size # DiskData.partitions[2].bucket_size

\* C8: column alignment: the manifests list the partitions in insertion
\* order, and the fingerprints of the i-th one fill exactly its slot range in
\* every column: the in-memory columns against the in-memory list, the
\* bucket files against the persisted manifest.
C8_ColumnAlignment ==
    /\ Len(mem_index.partitions) = Len(mem_ghost)
    /\ \A i \in 1 .. Len(mem_index.partitions) :
          Aligned(mem_index.partitions, mem_ghost, mem_index.buckets, i)
    /\ partitions_data.exists =>
          /\ Len(DiskData.partitions) = Len(disk_ghost)
          /\ \A i \in 1 .. Len(DiskData.partitions) :
                Aligned(DiskData.partitions, disk_ghost,
                        [b \in 1 .. Len(bucket_files) |->
                            to_u16_slice(bucket_files[b].bytes)], i)

\* a reloaded index with one persisted and one in-memory partition, the
\* persisted one wider than its fingerprints in some bucket
C8_Witness ==
    /\ partitions_data.exists
    /\ Len(DiskData.partitions) = 1
    /\ Len(data.partitions) = 1
    /\ Len(mem_index.partitions) = 1
    /\ DiskData.partitions[1].bucket_size = 2
    /\ \E k \in Keys : Hits(k) # {}

\* C9: the stride stored in the manifest is the sum of the widths of all
\* persisted partitions.
C9_ManifestStride ==
    partitions_data.exists => DiskData.slots = SumWidth(DiskData.partitions)

\* C10: manifest round trip: what try_load_from_disk reads right after a
\* persist is the data of the persisting index: bucket count, stride and the
\* entries with identifier, width, active flag and element count.
C10_ManifestRoundTrip ==
    [][Persist =>
        LET l == PersistentIndex_try_load_from_disk(partitions_data')
        IN  l.ok /\ l.data = data']_vars

\* a manifest of two entries on disk, one tombstoned, one active with elements
C10_Witness ==
    /\ partitions_data.exists
    /\ Len(DiskData.partitions) = 2
    /\ \E j \in 1 .. 2 : ~DiskData.partitions[j].active
    /\ \E j \in 1 .. 2 :
          DiskData.partitions[j].active /\ DiskData.partitions[j].elements > 0
    /\ DiskData = data

\* the number of slots of filter f that hold fingerprint fp
stored(f, fp) ==
    Cardinality({bi \in {<<b, i>> : b \in 1 .. Len(f.data), i \in 1 .. (MaxInserts + 1)} :
                    bi[2] <= Len(f.data[bi[1]]) /\ f.data[bi[1]][bi[2]] = fp})

\* C11: the growable filter has no false negatives: once an insert call
\* returned, contains(k) is true for every key k an insert was called with.
C11_FilterNoFalseNegatives ==
    ~flt.call.pending => \A k \in flt.inserted : contains(flt.filter, k)

\* C12: duplicate insert is a no-op: an insert of a key that was inserted
\* before returns Duplicate and leaves the bucket lists, items and
\* entries_per_bucket as they were.
C12_DuplicateNoOp ==
    flt.again => flt.result = "Duplicate" /\ flt.filter = flt.before

\* C13: the growable filter always accepts: every insert call that returned
\* returned Success or Duplicate, and after Success the filter holds the
\* fingerprints it held before and the fingerprint of the key once more.
C13_AlwaysAccepts ==
    (flt.inserts > 0 /\ ~flt.call.pending) =>
        /\ flt.result \in {"Success", "Duplicate"}
        /\ flt.result = "Success" =>
              /\ flt.filter.items = flt.before.items + 1
              /\ \A fp \in Fingerprints :
                    stored(flt.filter, fp) = stored(flt.before, fp)
                        + (IF fp = fingerprint(flt.key) THEN 1 ELSE 0)

\* an insert used up its whole eviction budget and widened the buckets
C13_Witness ==
    /\ ~flt.call.pending
    /\ flt.result = "Success"
    /\ flt.evictions = TriesBudget
    /\ flt.filter.entries_per_bucket = flt.before.entries_per_bucket + 1

\* C14: a tombstone is durable: in the manifest a persist wrote, every
\* entry that remove was called for before the persist has active = false,
\* and the index loaded from it returns for no key a partition whose
\* entries were all removed.
C14_DurableTombstone ==
    partitions_data.exists =>
        LET l == PersistentIndex_try_load_from_disk(partitions_data)
        IN  /\ l.ok
            /\ Len(l.data.partitions) = Len(disk_ghost)
            /\ \A j \in 1 .. Len(disk_ghost) :
                  disk_ghost[j].removed => ~l.data.partitions[j].active
            /\ \A p \in PartitionIds :
                  (/\ \E j \in 1 .. Len(disk_ghost) : disk_ghost[j].partition = p
                   /\ \A j \in 1 .. Len(disk_ghost) :
                         disk_ghost[j].partition = p => disk_ghost[j].removed)
                  => \A k \in Keys :
                        p \notin Range(PersistentIndex_query(
                                l.data, l.mem_index, bucket_files, k).result)

\* C15: partitions() yields live partitions only: a partition whose
\* entries were all removed is not among the identifiers it yields.
C15_PartitionsLiveOnly ==
    \A p \in PartitionIds :
        (/\ \E j \in 1 .. Len(AllPartitions) : AllPartitions[j].partition = p
         /\ \A j \in 1 .. Len(AllPartitions) :
               AllPartitions[j].partition = p => AllGhost[j].removed)
        => p \notin Range(PersistentIndex_partitions(data, mem_index))

\* C20: add, add_many and remove perform no disk I/O: every step of the
\* index that is not a persist, a step of add, add_many or remove among
\* them, leaves the manifest file and every bucket file as they were.
C20_NoDiskIoInAddRemove ==
    [][~Persist => UNCHANGED <<partitions_data, bucket_files>>]_vars

\* after a persist a partition was added and removed again in memory, and
\* the files still hold the persisted generation only
C20_Witness ==
    /\ partitions_data.exists
    /\ Len(data.partitions) = 1
    /\ Len(mem_index.partitions) = 1
    /\ ~mem_index.partitions[1].active
    /\ mem_index.elements > 0
    /\ DiskData.partitions = data.partitions
    /\ \A b \in 1 .. Len(bucket_files) :
          Len(bucket_files[b].bytes) = 2 * SumWidth(data.partitions)

\* C16: persist replaces the manifest atomically: at every moment, and so
\* after a crash or an error at any point of a persist call, partitions.data
\* is either the file it was when the call began or the complete new manifest
C16_AtomicManifest ==
    \/ partitions_data = io.before
    \/ partitions_data.exists /\ partitions_data.bytes = io.after

\* C17: when persist returns an error from create_dir_all or from the append
\* to a bucket file, partitions.data is the file it was when the call began
\* and the handle still holds the in-memory generation it had then
C17_FailedPersistKeepsGeneration ==
    [][(io'.result = "Err" /\ io.stage \in {"create_dir", "bucket"}) =>
          /\ partitions_data' = io.before
          /\ mem_index' = io.generation
          /\ data' = data]_vars

\* a persist of a non-empty generation over an existing manifest failed at a
\* bucket file after an earlier bucket file was appended to
C17_Witness ==
    /\ io.stage = "idle"
    /\ io.result = "Err"
    /\ io.failed = "bucket"
    /\ io.idx >= 1
    /\ partitions_data.exists
    /\ Len(mem_index.partitions) >= 1
    /\ mem_index = io.generation

\* C19: partitions.data changes only in a persist call that has appended to
\* all N bucket files without an error
C19_ManifestAfterAllAppends ==
    [][partitions_data' # partitions_data =>
          /\ io.stage \in {"manifest_open", "manifest_write"}
          /\ io.idx = Len(bucket_files)
          /\ io.failed = "none"]_vars

\* a persist of a non-empty generation with two bucket files returned Ok
C19_Witness ==
    /\ io.stage = "idle"
    /\ io.result = "Ok"
    /\ io.idx = MaxCrashBuckets
    /\ Len(bucket_files) = MaxCrashBuckets
    /\ \A b \in 1 .. Len(bucket_files) : Len(bucket_files[b].bytes) > 0
    /\ partitions_data.exists
    /\ Len(data.partitions) >= 1

\* C18: after try_load_from_disk every bucket file is exactly 2 bytes times
\* the stride of the loaded manifest (the sum of the widths of its entries)
\* long: bytes appended by a persist that died before it rewrote the
\* manifest are gone
C18_LoadTruncates ==
    io.result = "Loaded" =>
        \A b \in 1 .. Len(bucket_files) :
            Len(bucket_files[b].bytes) = 2 * SumWidth(data.partitions)

\* C22: XOR-form round trip: for every key and every bucket count, the
\* buckets b0 .. b5 reached from b0 = bucket(key) by repeated flip_bucket
\* alternate between two buckets: b0 = b2 = b4 and b1 = b3 = b5
C22_XorRoundTrip ==
    alg.op = "growable_roundtrip" =>
        /\ alg.chain[1] = alg.chain[3]
        /\ alg.chain[3] = alg.chain[5]
        /\ alg.chain[2] = alg.chain[4]
        /\ alg.chain[4] = alg.chain[6]

\* the two bucket files query_disk reads for key, by position
Candidates(key) ==
    LET bucket1 == bucket(key, data.num_buckets)
    IN  {bucket1 + 1, flip_bucket(fingerprint(key), bucket1, data.num_buckets) + 1}

\* C21: a query during which the read of a candidate bucket file fails
\* returns an error and no partitions, whatever the in-memory generation
\* holds (query_disk reads bucket files only when the persisted manifest has
\* entries)
C21_QueryErrorNoPartialResults ==
    (/\ io.query.status # "None"
     /\ data.partitions # <<>>
     /\ Candidates(io.query.key) \cap io.query.unreadable # {})
    => io.query.status = "Err" /\ io.query.result = <<>>

\* a query failed on one unreadable bucket file while the in-memory
\* generation alone has a partition for the key
C21_Witness ==
    /\ io.query.status = "Err"
    /\ Cardinality(io.query.unreadable) = 1
    /\ Len(bucket_files) >= 2
    /\ ~CuckooIndex_query(mem_index, io.query.key).panic
    /\ CuckooIndex_query(mem_index, io.query.key).result # <<>>

\* C23: no query reports a partition both from the scan of the persisted
\* generation and from the scan of the in-memory generation
C23_NoDuplicateAcrossGenerations ==
    \A k \in Keys :
        LET disk_results == PersistentIndex_query_disk(data, bucket_files, k)
            mem_results  == CuckooIndex_query(mem_index, k)
        IN  (disk_results.status = "Ok" /\ ~mem_results.panic) =>
                Range(disk_results.result) \cap Range(mem_results.result) = {}

\* entry q is entry p, except that it may have been tombstoned since
SameEntry(p, q) ==
    /\ q.partition = p.partition
    /\ q.bucket_size = p.bucket_size
    /\ q.elements = p.elements
    /\ (~p.active => ~q.active)

\* C24: partition life cycle: persist appends the in-memory entries to the
\* persisted manifest in their order, none lost and none twice, and leaves
\* an empty in-memory generation; in every step the persisted entries keep
\* their places (none goes back into the in-memory generation), the
\* in-memory entries stay in place or all leave, and no active flag goes
\* from false to true
C24_PartitionLifeCycle ==
    [][/\ Persist =>
            /\ data'.partitions = data.partitions \o mem_index.partitions
            /\ mem_index'.partitions = <<>>
            /\ mem_index'.slots = 0
            /\ Len(mem_index'.buckets) = Len(mem_index.buckets)
            /\ \A b \in 1 .. Len(mem_index'.buckets) : mem_index'.buckets[b] = <<>>
       /\ Len(data'.partitions) >= Len(data.partitions)
       /\ \A j \in 1 .. Len(data.partitions) :
             SameEntry(data.partitions[j], data'.partitions[j])
       /\ \/ mem_index'.partitions = <<>>
          \/ /\ Len(mem_index'.partitions) >= Len(mem_index.partitions)
             /\ Len(data'.partitions) = Len(data.partitions)
             /\ \A j \in 1 .. Len(mem_index.partitions) :
                   SameEntry(mem_index.partitions[j], mem_index'.partitions[j])
      ]_vars

\* two entries of different partitions, one of them tombstoned, were
\* persisted and the in-memory generation is empty
C24_Witness ==
    /\ Len(data.partitions) = 2
    /\ data.partitions[1].partition # data.partitions[2].partition
    /\ \E j \in 1 .. 2 : ~data.partitions[j].active
    /\ \E j \in 1 .. 2 : data.partitions[j].active
    /\ mem_index = CuckooIndex_new(data.num_buckets)
    /\ partitions_data.exists

\* the last insert call pushed its fingerprint into bucket b of the filter
\* it found
PlacedIn(b) ==
    flt.filter.data[b + 1] =
        Append(flt.before.data[b + 1], fingerprint(flt.key))

\* bucket b of the filter the last insert call found had space
HadSpace(b) == Len(flt.before.data[b + 1]) < flt.before.entries_per_bucket

\* C25: target choice: an insert whose fingerprint is in neither candidate
\* bucket puts it into the primary bucket b1 when b1 has space (also when
\* the partner b2 has space too), and into b2 when only b2 has space
C25_TargetChoice ==
    (flt.inserts > 0 /\ flt.evictions = 0 /\ flt.result = "Success") =>
        LET fp == fingerprint(flt.key)
            b1 == GrowableCuckooFilter_bucket(flt.key, fp, flt.before.buckets)
            b2 == GrowableCuckooFilter_flip_bucket(fp, b1, flt.before.buckets)
        IN  /\ HadSpace(b1) => PlacedIn(b1)
            /\ (~HadSpace(b1) /\ HadSpace(b2)) => PlacedIn(b2)

\* C26: eviction budget: an insert makes at most TriesBudget = 63 evictions;
\* each eviction lowers tries_left by one from 63, an eviction is only
\* made with tries_left above 0, and tries_left never goes below 0
C26_EvictionBudget ==
    /\ flt.evictions <= TriesBudget
    /\ flt.call.tries_left >= 0
    /\ flt.call.pending =>
          /\ flt.call.tries_left >= 1
          /\ flt.call.tries_left + flt.evictions = TriesBudget

\* an insert ended after it used its whole budget of 63 evictions
C26_Witness ==
    /\ flt.evictions = TriesBudget
    /\ ~flt.call.pending
    /\ flt.result = "Success"

\* C27: bucket capacity: every bucket list of the filter has at most
\* entries_per_bucket entries, in every state, also right after a grow step
C27_BucketCapacity ==
    \A b \in 1 .. Len(flt.filter.data) :
        Len(flt.filter.data[b]) <= flt.filter.entries_per_bucket

\* the filter has grown and a bucket is filled to the new width
C27_Witness ==
    /\ flt.filter.entries_per_bucket >= 2
    /\ flt.filter.entries_per_bucket = flt.before.entries_per_bucket + 1
    /\ ~flt.call.pending
    /\ \E b \in 1 .. Len(flt.filter.data) :
          Len(flt.filter.data[b]) = flt.filter.entries_per_bucket

\* C28: width growth: entries_per_bucket starts at 1 and never decreases;
\* it changes only by plus 1, in the eviction that uses up the budget of an
\* insert (the call recursed to has tries_left = 0) and finds the partner
\* bucket full; the fingerprint in hand is pushed into that bucket and the
\* insert ends, so the width grows at most once per insert
C28_WidthGrowth ==
    /\ flt.filter.entries_per_bucket = 1
    /\ [][/\ flt'.filter.entries_per_bucket >= flt.filter.entries_per_bucket
          /\ flt'.filter.entries_per_bucket # flt.filter.entries_per_bucket =>
                /\ flt'.filter.entries_per_bucket = flt.filter.entries_per_bucket + 1
                /\ flt.call.pending
                /\ flt.call.tries_left = 1
                /\ flt'.evictions = TriesBudget
                /\ ~flt'.call.pending
                /\ flt'.result = "Success"
                /\ flt.filter.entries_per_bucket = flt.before.entries_per_bucket
                /\ flt'.filter.items = flt.filter.items + 1
                /\ \E b \in 1 .. Len(flt.filter.data) :
                      /\ Len(flt.filter.data[b]) = flt.filter.entries_per_bucket
                      /\ Len(flt'.filter.data[b]) = flt'.filter.entries_per_bucket
                      /\ \A c \in 1 .. Len(flt.filter.data) :
                            c # b => Len(flt'.filter.data[c]) = Len(flt.filter.data[c])
         ]_vars

\* an insert used up its budget and widened the filter from 1 to 2
C28_Witness ==
    /\ flt.before.entries_per_bucket = 1
    /\ flt.filter.entries_per_bucket = 2
    /\ flt.evictions = TriesBudget
    /\ flt.filter.items = flt.before.items + 1

\* the sequence seq with every occurrence of p taken out
RECURSIVE Without(_, _)
Without(seq, p) ==
    IF seq = <<>> THEN <<>>
    ELSE (IF Head(seq) = p THEN <<>> ELSE <<Head(seq)>>) \o Without(Tail(seq), p)

\* C29: remove(P) sets active to false in the entries of P of the in-memory
\* list and changes nothing else: columns, slots, element counts, the order
\* and widths of the entries, the other active flags, the persisted data and
\* the files stay as they are; every query of the in-memory index returns
\* what it returned before with P taken out; a remove of a partition that
\* has no entry changes nothing
C29_RemoveFrame ==
    [][\A p \in PartitionIds :
          Remove(p) =>
            /\ data' = data
            /\ partitions_data' = partitions_data
            /\ bucket_files' = bucket_files
            /\ mem_index'.buckets = mem_index.buckets
            /\ mem_index'.slots = mem_index.slots
            /\ mem_index'.elements = mem_index.elements
            /\ Len(mem_index'.partitions) = Len(mem_index.partitions)
            /\ \A j \in 1 .. Len(mem_index.partitions) :
                  mem_index'.partitions[j] =
                      IF mem_index.partitions[j].partition = p
                      THEN [mem_index.partitions[j] EXCEPT !.active = FALSE]
                      ELSE mem_index.partitions[j]
            /\ \A k \in Keys :
                  /\ CuckooIndex_query(mem_index', k).panic
                        = CuckooIndex_query(mem_index, k).panic
                  /\ CuckooIndex_query(mem_index', k).result
                        = Without(CuckooIndex_query(mem_index, k).result, p)
            /\ (\A j \in 1 .. Len(mem_index.partitions) :
                    mem_index.partitions[j].partition # p) => mem_index' = mem_index
      ]_vars

\* the first of two in-memory entries is tombstoned and a query still finds
\* the second one, whose slots lie behind those of the first
C29_Witness ==
    /\ Len(mem_index.partitions) = 2
    /\ ~mem_index.partitions[1].active
    /\ mem_index.partitions[2].active
    /\ mem_index.partitions[1].partition # mem_index.partitions[2].partition
    /\ \E k \in Keys :
          mem_index.partitions[2].partition
              \in Range(CuckooIndex_query(mem_index, k).result)

\* the bucket files as columns of u16 values
DiskColumns == [i \in 1 .. Len(bucket_files) |-> to_u16_slice(bucket_files[i].bytes)]

\* partition P has an active entry in manifest ps that holds fingerprint(k)
\* at an offset of its own slot range in one of the two candidate buckets of
\* k among the n columns cols
Justified(ps, cols, n, P, k) ==
    LET fp == fingerprint(k)
        b1 == bucket(k, n)
        b2 == flip_bucket(fp, b1, n)
    IN  \E j \in 1 .. Len(ps) :
            /\ ps[j].partition = P
            /\ ps[j].active
            /\ \E l \in 0 .. (ps[j].bucket_size - 1), b \in {b1, b2} :
                  /\ b + 1 <= Len(cols)
                  /\ Offset(ps, j) + l + 1 <= Len(cols[b + 1])
                  /\ cols[b + 1][Offset(ps, j) + l + 1] = fp

\* C30: query soundness: a partition is reported for key k only if one of
\* its entries is active and holds fingerprint(k) inside its own slot range
\* in bucket b1 or b2 of k, in the generation whose scan reported it
C30_QuerySoundness ==
    \A k \in Keys :
        Query(k).status = "Ok" =>
            /\ \A P \in Range(PersistentIndex_query_disk(data, bucket_files, k).result) :
                  Justified(data.partitions, DiskColumns, data.num_buckets, P, k)
            /\ \A P \in Range(CuckooIndex_query(mem_index, k).result) :
                  Justified(mem_index.partitions, mem_index.buckets,
                            Len(mem_index.buckets), P, k)

\* a query reports only the second of two active entries of different
\* partitions: the fingerprint lies in the slot range of the second
C30_Witness ==
    /\ Len(AllPartitions) = 2
    /\ AllPartitions[1].active
    /\ AllPartitions[1].partition # AllPartitions[2].partition
    /\ \E k \in Keys :
          /\ Query(k).status = "Ok"
          /\ Hits(k) = {AllPartitions[2].partition}

\* in the columns cols of one generation, every slot of every entry holds
\* the fingerprint its filter stored there, which is not 0, or 0 if the
\* filter stored none there
ZeroSentinel(ps, ghost, cols) ==
    \A j \in 1 .. Len(ps), b \in 1 .. Len(cols) :
      \A l \in 1 .. ps[j].bucket_size :
        LET v == cols[b][Offset(ps, j) + l]
        IN  IF l <= Len(ghost[j].lists[b])
            THEN v = ghost[j].lists[b][l] /\ v # 0
            ELSE v = 0

\* C31: the zero sentinel: a slot that a partition did not fill is 0, a
\* stored fingerprint is never 0, an entry built from no keys has width 1,
\* and a partition whose entries were all built from no keys is returned by
\* no query
C31_ZeroSentinel ==
    /\ ZeroSentinel(mem_index.partitions, mem_ghost, mem_index.buckets)
    /\ ZeroSentinel(data.partitions, data_ghost, DiskColumns)
    /\ \A j \in 1 .. Len(AllPartitions) :
          AllGhost[j].keys = {} => AllPartitions[j].bucket_size = 1
    /\ \A p \in PartitionIds :
          (\A j \in 1 .. Len(AllPartitions) :
              AllPartitions[j].partition = p => AllGhost[j].keys = {})
          => \A k \in Keys : p \notin Hits(k)

\* an entry built from no keys lies in front of an entry of another
\* partition that a query finds
C31_Witness ==
    /\ Len(AllPartitions) = 2
    /\ AllGhost[1].keys = {}
    /\ AllGhost[2].keys # {}
    /\ AllPartitions[1].partition # AllPartitions[2].partition
    /\ \E k \in Keys : Hits(k) = {AllPartitions[2].partition}

\* C32: the bucket count is fixed: num_buckets of the persisted data and the
\* number of in-memory columns are the N given to try_new and are changed
\* by no add, add_many, remove, persist or reload
C32_BucketCountFixed ==
    /\ data.num_buckets = Len(mem_index.buckets)
    /\ data.num_buckets = Len(bucket_files)
    /\ [][/\ data'.num_buckets = data.num_buckets
          /\ Len(mem_index'.buckets) = Len(mem_index.buckets)]_vars

\* an index of MaxBuckets buckets has a persisted entry, was reloaded or
\* persisted again, and has a new in-memory entry
C32_Witness ==
    /\ data.num_buckets = MaxBuckets
    /\ Len(mem_index.buckets) = MaxBuckets
    /\ Len(data.partitions) >= 1
    /\ Len(mem_index.partitions) >= 1
    /\ DiskData.num_buckets = MaxBuckets

\* the index was reloaded after a persist call ended, by an error or by the
\* death of the process, with bucket appends made or under way and before
\* it touched the manifest
ReloadedAfterAppends ==
    /\ io.result = "Loaded"
    /\ io.failed \in {"bucket", "move", "manifest_open"}

\* C33: crash consistency of reads: after a persist that died after some or
\* all of its bucket appends and before the manifest rewrite, the reloaded
\* index answers every query with exactly the partitions query_disk
\* returned when that persist began
C33_CrashConsistentReads ==
    ReloadedAfterAppends =>
        \A k \in Keys :
            /\ Query(k).status = "Ok"
            /\ mem_index.partitions = <<>> => Query(k).result = io.disk_hits[k]
            /\ PersistentIndex_query_disk(data, bucket_files, k).result = io.disk_hits[k]

\* the reloaded index has a persisted entry that a query finds, and a
\* bucket file with bytes behind the stride of the manifest
C33_Witness ==
    /\ ReloadedAfterAppends
    /\ mem_index.partitions = <<>>
    /\ \E k \in Keys : Query(k).result # <<>>
    /\ \E b \in 1 .. Len(bucket_files) :
          Len(bucket_files[b].bytes) > 2 * SumWidth(data.partitions)

\* C34: retry after a failed persist: when a persist failed in the bucket
\* loop and the next persist on the same handle succeeded, every bucket file
\* is exactly 2 bytes times the sum of the persisted widths long and every
\* persisted entry lies at its manifest offset in every bucket file
C34_RetryAfterFailedPersist ==
    (io.stage = "idle" /\ io.result = "Ok" /\ io.retry) =>
        /\ \A b \in 1 .. Len(bucket_files) :
              Len(bucket_files[b].bytes) = 2 * SumWidth(data.partitions)
        /\ \A j \in 1 .. Len(data.partitions) :
              Aligned(data.partitions, data_ghost, DiskColumns, j)

\* C35: readers tolerate a concurrent appender: a query_disk call of a handle
\* whose manifest was loaded before, with its two bucket reads interleaved in
\* any way with another handle's persist (torn appends included), returns Ok
\* with the partitions it returned when no append was in progress
C35_ReaderToleratesAppender ==
    io.reader.stage = "done" =>
        /\ io.reader.status = "Ok"
        /\ io.reader.result = io.reader.hits[io.reader.key]

\* a query that returned a persisted partition after its first read saw a
\* bucket file with a torn append (an odd number of bytes) behind the
\* stride of its manifest
C35_Witness ==
    /\ io.reader.stage = "done"
    /\ io.reader.result # <<>>
    /\ Len(io.reader.b1_data) > 2 * SumWidth(io.reader.data.partitions)
    /\ Len(io.reader.b1_data) % 2 = 1

\* C36: add_many(batch) is equivalent to sequential add: on every reachable
\* in-memory index and for every batch of built filters, add_many yields the
\* partition list, slots, elements and bucket columns that add yields when
\* called for each batch element in order
C36_AddManyIsSequentialAdd ==
    \A n \in 0 .. MaxParts :
        NumEntries + n <= MaxParts =>
            \A filters \in Batches(n, Len(mem_index.buckets)) :
                CuckooIndex_add_many(mem_index, filters) = add_each(mem_index, filters)

\* an index that is the result of add_many on a batch of two filters of
\* different widths, one of which leaves a slot of some column unoccupied
C36_Witness ==
    /\ Len(mem_index.partitions) = 2
    /\ mem_index.partitions[1].bucket_size # mem_index.partitions[2].bucket_size
    /\ \E filters \in Batches(2, Len(mem_index.buckets)) :
          /\ mem_index = CuckooIndex_add_many(CuckooIndex_new(Len(mem_index.buckets)),
                                             filters)
          /\ \E j \in 1 .. 2, i \in 1 .. Len(mem_index.buckets) :
                Len(filters[j].filter.data[i]) < entries_per_bucket(filters[j].filter)

\* C37: builder and query agree on buckets: for every key and bucket count,
\* the bucket GrowableCuckooFilter::insert computes for the key and its
\* partner under flip_bucket of growable.rs are the two buckets bucket(key, N)
\* and flip_bucket(fp, bucket(key, N), N) that the queries inspect
C37_BuilderQueryBuckets ==
    alg.op = "growable_roundtrip" =>
        {alg.chain[1], alg.chain[2]} =
            {bucket(alg.key, alg.buckets),
             flip_bucket(alg.fp, bucket(alg.key, alg.buckets), alg.buckets)}

\* C38: persist is idempotent on an empty generation: a persist call made
\* while the in-memory generation is empty, on a storage root that holds a
\* manifest, leaves the length of every bucket file and the manifest (bucket
\* count, stride, partition list) as they were before the call
C38_PersistIdempotentOnEmpty ==
    [][(Persist /\ mem_index.partitions = <<>> /\ partitions_data.exists) =>
          /\ \A b \in 1 .. Len(bucket_files) :
                Len(bucket_files'[b].bytes) = Len(bucket_files[b].bytes)
          /\ DiskData'.num_buckets = DiskData.num_buckets
          /\ DiskData'.partitions = DiskData.partitions
          /\ DiskData'.slots = DiskData.slots]_vars

\* C39: the fixed-width CuckooFilter restores its state on rejection: when
\* insert or try_insert returns Rejected, the slot array and items are as
\* they were before the call, also when the chain of evictions went through
\* the same slot more than once
C39_RejectedRestoresState ==
    cuckoo.result = "Rejected" => cuckoo.filter = cuckoo.before

\* a rejected call whose chain evicted from the same slot twice, with
\* different fingerprints
C39_Witness ==
    /\ cuckoo.result = "Rejected"
    /\ \E i, j \in 1 .. Len(cuckoo.frames) :
          /\ i < j
          /\ cuckoo.frames[i].slot = cuckoo.frames[j].slot
          /\ cuckoo.frames[i].evicted # cuckoo.frames[j].evicted

=============================================================================
